---- MODULE Spec2Model ----
(***************************************************************************)
(* Model of the LED strip controller sketch (src/unnamed/part_000): the    *)
(* serial command handler, the brightness transition, the wave queue, the  *)
(* event layer and the two tidal-bridge particle strips, driven by the     *)
(* main loop; of the earlier LED sketches (src/灯带), whose functions are   *)
(* applied on their own; and of the two motor sketches: the multi-component *)
(* controller (src/Machanic/Function.ino) with its main-mode cycle, its     *)
(* START sequence, the debug commands and the 30 s control gap, and the     *)
(* basic BTS7960 sketch that drives each actuator by its pair of PWM        *)
(* outputs.  In the motor sketches an AVR int has 16 bits, millis() 32.     *)
(*                                                                         *)
(* Number representation.  The sketch computes in float; the model uses    *)
(* integers in fixed point:                                                *)
(*   - control values, speeds, energies, interpolation factors: 1/1000     *)
(*     (100.0 is 100000, a speed of 0.22 units/s is 220);                  *)
(*   - millis() and every time kept in seconds by the sketch: milliseconds *)
(*     (deltaTime 0.016 is 16, WAVE_INTERVAL_SLOW 10.0 is 10000);          *)
(*   - wave and event phases: 1/1000000 of a virtual position, so that     *)
(*     speed * deltaTime is exact (PHASE_PERIOD 21.0 is 21000000);         *)
(*   - particle positions: 1/1000 of a LED.                                *)
(* Float rounding is replaced by integer division (floor).  The float      *)
(* values NaN and infinity, which atof returns for "nan" and "inf", are    *)
(* the integers NaN and Infinity, outside every other value; an operation  *)
(* with a NaN operand yields NaN and a comparison with NaN is false.       *)
(***************************************************************************)
EXTENDS Integers, Sequences, FiniteSets, TLC

VARIABLES
    now,            \* millis() as of the last clock read
    pc,             \* position in loop(): "serial" (step 1) or "frame" (steps 2-6)
    state,          \* ControlState state
    tidal,          \* <<tidal_strip1_state, tidal_strip2_state>>
    everyNPrev,     \* mPrevTrigger of the EVERY_N_MILLISECONDS block, -1 before its first pass
    reply,          \* what parseCommand last printed on Serial
    serialLine,     \* history: the line read from Serial in this loop() pass, NoLine if none
    cmdCount,       \* serial lines handed to parseCommand so far
    frameCount,     \* loop() passes completed so far
    pendingF,       \* history: target of an f,<n> (n > 0) not yet followed by an unpaused frame, else -1
    afterQuit,      \* history: TRUE from a q command until the next f command
    lastTrigger,    \* history: millis() when updateEventLayer last triggered an event, -1 if never
    call,           \* a call of one of the sketch's functions on its own: its arguments and its result
    systemState,    \* motor sketches: SystemState systemState of the controller
    stepperRunning, \* motor sketches: the global stepperRunning
    pins,           \* motor sketches: the value last written to each output pin
    pinWrites,      \* history: the pin writes of the last pass of loop(), in order, as <<pin, value>>
    cmdBuffer,      \* motor sketches: the characters in cmdBuffer before cmdIndex
    cmdIndex,       \* motor sketches: the global cmdIndex
    handled,        \* history: the lines the last pass handed to parseCommand, with what became of each
    lastMain,       \* history: when the last main-mode command started a motion, its direction and percent,
                    \* and those resetMainMotion then used (NUL and 0 until it ran)
    lastAccepted,   \* history: when the last command was accepted; stopped: none was accepted since
                    \* setup() or the last force stop
    lineLength,     \* history: the characters received on Serial since the last line end
    build           \* motor sketches: how the build computes an int product that overflows

\* the variables of the LED sketch and those of the motor sketches
ledVars == <<pc, state, tidal, everyNPrev, reply, serialLine, pendingF, afterQuit, lastTrigger>>
motorVars == <<systemState, stepperRunning, pins, pinWrites, cmdBuffer, cmdIndex, handled, lastMain,
               lastAccepted, lineLength, build>>

vars == <<now, pc, state, tidal, everyNPrev, reply, serialLine, cmdCount, frameCount, pendingF,
          afterQuit, lastTrigger, call, systemState, stepperRunning, pins, pinWrites,
          cmdBuffer, cmdIndex, handled, lastMain, lastAccepted, lineLength, build>>

---------------------------------------------------------------------------
(* Configuration of the sketch *)

PHASE_PERIOD == 21000000
PHASE_SPEED_SLOW == 220
PHASE_SPEED_FAST == 3200
EVENT_COOLDOWN == 1800
MAX_WAVES == 10
WAVE_INTERVAL_SLOW == 10000
WAVE_INTERVAL_FAST == 1000
TRANSITION_TIME_MS == 16000
TRANSITION_UPDATE_INTERVAL == 20
TIDAL_STRIP_1_LEDS == 200
TIDAL_STRIP_2_LEDS == 300
MAX_PARTICLES == 30
ACCEL_START_U == 700
SETUP_DELAY == 100
NUM_GROUPS == 5
LEDS_PER_GROUP == <<300, 300, 300, 300, 300>>

TidalLEDs == <<TIDAL_STRIP_1_LEDS, TIDAL_STRIP_2_LEDS>>

---------------------------------------------------------------------------
(* Bounds of the model and the inputs it enumerates *)

MaxFrames == 4          \* loop() passes in a run of Spec
MaxCmds == 3            \* serial lines in a run of Spec
MaxFramesRamp == 18     \* loop() passes in a run of SpecRamp
MaxCmdsRamp == 2        \* serial lines in a run of SpecRamp
MaxFramesLong == 101    \* loop() passes in a run of SpecLong
MaxCmdsLong == 1        \* serial lines in a run of SpecLong
MaxFramesOvertake == 6  \* loop() passes in a run of SpecOvertake
MaxCmdsOvertake == 2    \* serial lines in a run of SpecOvertake
MaxFramesFlash == 10    \* loop() passes in a run of SpecFlash
MaxFramesEvent == 5     \* loop() passes in a run of SpecEvent
MaxCmdsEvent == 2       \* serial lines in a run of SpecEvent

\* Duration of one loop() pass in ms; 1500 is a stall (more than 1 s, so its
\* deltaTime is replaced by 0.016 s).
Deltas == {1000, 1500}
DeltasRamp == {1000}
DeltasLong == {1000}
DeltasOvertake == {100}
DeltasFlash == {200, 500}
DeltasEvent == {500, 1000}

\* ms that pass inside a pass between updateVirtualPosition's clock read and
\* the later reads of loop().
Jitters == {0}

\* Outcomes of random(0, 10000).
Draws == {5000}

NoLine == <<"(none)">>

\* Serial lines, as sequences of characters.
CommandLines ==
    { <<"f", ",", "0">>,
      <<"f", ",", "4", "0">>,
      <<"F", ",", "1", "0", "0", "\r">>,
      <<"f", ",", "1", "5", "0">>,
      <<"f", ",", "-", "5">>,
      <<"f", ",", "a", "b", "c">>,
      <<"f", ",">>,
      <<"f", ",", "n", "a", "n">>,
      <<"f", ",", "i", "n", "f">>,
      <<"s">>,
      <<" ", "Q">>,
      <<"x">>,
      <<"f">>,
      <<>> }
CommandLinesRamp ==
    { <<"f", ",", "0">>, <<"f", ",", "4", "0">>, <<"f", ",", "1", "0", "0">>,
      <<"f", ",", "n", "a", "n">>, <<"s">>, <<"q">> }
CommandLinesOvertake == { <<"f", ",", "1", "0">>, <<"f", ",", "9", "0">> }
CommandLinesLong == { <<"f", ",", "0">>, <<"f", ",", "n", "a", "n">>, <<"q">> }

---------------------------------------------------------------------------
(* Arithmetic helpers *)

\* the float values that are not numbers of the fixed-point model
NaN == -2147483647
Infinity == 2000000000

\* the Arduino macro ((amt)<(low)?(low):((amt)>(high)?(high):(amt))): both
\* comparisons are false for NaN
constrain(amt, low, high) ==
    IF amt = NaN THEN NaN
    ELSE IF amt < low THEN low ELSE IF amt > high THEN high ELSE amt

lerpFloat(a, b, t) ==
    IF a = NaN \/ b = NaN \/ t = NaN THEN NaN
    ELSE a + ((b - a) * constrain(t, 0, 1000)) \div 1000

smoothstep(edge0, edge1, x) ==
    IF x = NaN THEN NaN
    ELSE LET y == constrain(((x - edge0) * 1000) \div (edge1 - edge0), 0, 1000)
         IN  (y * y * (3000 - 2 * y)) \div 1000000

\* positions and periods in 1/1000000
getCyclicDistance(pos1, pos2, period) ==
    LET dist == IF pos1 >= pos2 THEN pos1 - pos2 ELSE pos2 - pos1
    IN  IF dist <= period - dist THEN dist ELSE period - dist

\* min + (max - min) * (random(0, 10000) / 10000.0), r the outcome of random
randomFloat(min, max, r) == min + ((max - min) * r) \div 10000

\* randomFloat(0.0, 1.0) in 1/1000000
randomUnit(r) == 100 * r

mapControlValue(n) == IF n = NaN THEN NaN ELSE 1000 + (n * 60) \div 100

\* pow(s, 1.6) for s in [0, 1], s in 1/1000 and the result in 1/1000000:
\* the exact values at s = 0, 0.05, ..., 1 and linear in between.
Pow16Table ==
    << 0, 8286, 25119, 48056, 76146, 108819, 145678, 186427, 230832, 278702,
       329877, 384220, 441613, 501951, 565141, 631100, 699752, 771028, 844866,
       921208, 1000000 >>

pow16(s) ==
    LET x == constrain(s, 0, 1000)
        i == x \div 50
    IN  IF s = NaN THEN NaN
        ELSE IF i >= 20 THEN Pow16Table[21]
        ELSE Pow16Table[i + 1]
             + ((Pow16Table[i + 2] - Pow16Table[i + 1]) * (x - 50 * i)) \div 50

\* exp(-5 * elapsed) for elapsed >= 0 in ms, result in 1/1000000: the exact
\* values every 100 ms up to 1 s and linear in between, 0 from 2 s on.
ExpTable ==
    << 1000000, 606531, 367879, 223130, 135335, 82085, 49787, 30197, 18316,
       11109, 6738 >>

expDecay(elapsed) ==
    LET i == elapsed \div 100
    IN  IF elapsed < 0 THEN 1000000
        ELSE IF i >= 10 THEN (IF elapsed >= 2000 THEN 0 ELSE (ExpTable[11] * (2000 - elapsed)) \div 1000)
        ELSE ExpTable[i + 1]
             - ((ExpTable[i + 1] - ExpTable[i + 2]) * (elapsed - 100 * i)) \div 100

---------------------------------------------------------------------------
(* String helpers of parseCommand *)

\* once(F, e) is F(e) with the argument e evaluated first and one time only,
\* as C evaluates the argument of a call.
once(F(_), e) == CHOOSE r \in {F(x) : x \in {e}} : TRUE

isSpace(c) == c \in {" ", "\t", "\r", "\n"}

isDigit(c) == c \in {"0", "1", "2", "3", "4", "5", "6", "7", "8", "9"}

digitValue(c) ==
    CASE c = "0" -> 0 [] c = "1" -> 1 [] c = "2" -> 2 [] c = "3" -> 3
      [] c = "4" -> 4 [] c = "5" -> 5 [] c = "6" -> 6 [] c = "7" -> 7
      [] c = "8" -> 8 [] c = "9" -> 9

toLowerChar(c) ==
    CASE c = "F" -> "f" [] c = "S" -> "s" [] c = "Q" -> "q" [] c = "X" -> "x"
      [] c = "A" -> "a" [] c = "B" -> "b" [] c = "C" -> "c"
      [] OTHER -> c

RECURSIVE trimLeft(_)
trimLeft(s) == IF s # <<>> /\ isSpace(Head(s)) THEN trimLeft(Tail(s)) ELSE s

RECURSIVE trimRight(_)
trimRight(s) ==
    IF s # <<>> /\ isSpace(s[Len(s)]) THEN trimRight(SubSeq(s, 1, Len(s) - 1)) ELSE s

trim(s) == trimRight(trimLeft(s))

toLowerCase(s) == [i \in 1..Len(s) |-> toLowerChar(s[i])]

startsWith(s, prefix) ==
    Len(s) >= Len(prefix) /\ SubSeq(s, 1, Len(prefix)) = prefix

\* 0-based index of the first c in s, -1 when there is none
indexOf(s, c) ==
    IF \E i \in 1..Len(s) : s[i] = c
    THEN (CHOOSE i \in 1..Len(s) : s[i] = c /\ \A j \in 1..(i - 1) : s[j] # c) - 1
    ELSE -1

\* s.substring(from), from 0-based
substring(s, from) == SubSeq(s, from + 1, Len(s))

RECURSIVE digitPrefix(_)
digitPrefix(s) ==
    IF s # <<>> /\ isDigit(Head(s)) THEN <<Head(s)>> \o digitPrefix(Tail(s)) ELSE <<>>

RECURSIVE intOf(_)
intOf(ds) == IF ds = <<>> THEN 0 ELSE 10 * intOf(SubSeq(ds, 1, Len(ds) - 1)) + digitValue(ds[Len(ds)])

\* the first three decimals of a digit string, in 1/1000
fracOf(ds) ==
    (IF Len(ds) >= 1 THEN 100 * digitValue(ds[1]) ELSE 0)
    + (IF Len(ds) >= 2 THEN 10 * digitValue(ds[2]) ELSE 0)
    + (IF Len(ds) >= 3 THEN digitValue(ds[3]) ELSE 0)

\* String::toFloat, i.e. atof: leading white space, an optional sign, then
\* "nan", "inf", or digits with an optional point and digits; 0 when none of
\* these starts the string.
toFloat(s) ==
    LET a == trimLeft(s)
        neg == a # <<>> /\ Head(a) = "-"
        b == IF a # <<>> /\ Head(a) \in {"-", "+"} THEN Tail(a) ELSE a
        ip == digitPrefix(b)
        rest == SubSeq(b, Len(ip) + 1, Len(b))
        fp == IF rest # <<>> /\ Head(rest) = "." THEN digitPrefix(Tail(rest)) ELSE <<>>
        mag == 1000 * intOf(ip) + fracOf(fp)
    IN  IF startsWith(b, <<"n", "a", "n">>) THEN NaN
        ELSE IF startsWith(b, <<"i", "n", "f">>)
        THEN (IF neg THEN 0 - Infinity ELSE Infinity)
        ELSE IF ip = <<>> /\ fp = <<>> THEN 0 ELSE IF neg THEN 0 - mag ELSE mag

---------------------------------------------------------------------------
(* Brightness transition and wave queue *)

InactiveWave == [phase |-> 0, speed |-> 0, nValue |-> 0, active |-> FALSE]

\* waveIntervalOf through the cubic ease k = 3x^2 - 2x^3, as the speed is.
waveIntervalEased(n) ==
    lerpFloat(WAVE_INTERVAL_SLOW, WAVE_INTERVAL_FAST,
              smoothstep(0, 1000, constrain(IF n = NaN THEN NaN ELSE n \div 100, 0, 1000)))

\* waveIntervalOf with the two intervals exchanged.
waveIntervalSwapped(n) ==
    lerpFloat(WAVE_INTERVAL_FAST, WAVE_INTERVAL_SLOW,
              constrain(IF n = NaN THEN NaN ELSE n \div 100, 0, 1000))

\* lerp(WAVE_INTERVAL_SLOW, WAVE_INTERVAL_FAST, clamp(n / 100, 0, 1)), in ms
waveIntervalOf(n) ==
    lerpFloat(WAVE_INTERVAL_SLOW, WAVE_INTERVAL_FAST,
              constrain(IF n = NaN THEN NaN ELSE n \div 100, 0, 1000))

\* lerp(PHASE_SPEED_SLOW, PHASE_SPEED_FAST, smoothstep(clamp(n / 100, 0, 1)))
waveSpeedOf(n) ==
    lerpFloat(PHASE_SPEED_SLOW, PHASE_SPEED_FAST,
              smoothstep(0, 1000, constrain(IF n = NaN THEN NaN ELSE n \div 100, 0, 1000)))

clearWaves(st) ==
    [st EXCEPT !.waves = [i \in 1..MAX_WAVES |-> [st.waves[i] EXCEPT !.active = FALSE]],
               !.waveCount = 0]

\* commandF that sets the current value to the target at once.
commandFSnap(valueStr, st, td, t) ==
    LET targetValue == constrain(toFloat(valueStr), 0, 100000)
        s1 == [st EXCEPT !.transitionStartValue = st.currentControlValue,
                         !.currentControlValue = targetValue,
                         !.targetControlValue = targetValue,
                         !.transitionStartTime = t,
                         !.isTransitioning = TRUE,
                         !.lastUpdateTime = t]
        s2 == IF targetValue = 0
              THEN [clearWaves(s1) EXCEPT !.eventIntensity = 0,
                                          !.eventPhase = 0,
                                          !.lastEventTime = 0,
                                          !.globalTime = 0,
                                          !.lastWaveSpawnTime = 0]
              ELSE [clearWaves(s1) EXCEPT
                        !.lastWaveSpawnTime =
                            IF targetValue = NaN THEN NaN
                            ELSE s1.globalTime - waveIntervalOf(targetValue)]
        strip(ts) ==
            LET a == [ts EXCEPT !.controlValue = targetValue, !.lastUpdateTime = t]
            IN  IF targetValue = 0
                THEN [a EXCEPT !.particles = <<>>, !.flashIntensity = 0]
                ELSE a
    IN  [state |-> s2, tidal |-> [i \in 1..2 |-> strip(td[i])], reply |-> "OK_SET"]


\* commandF that leaves the active waves in place.
commandFKeepWaves(valueStr, st, td, t) ==
    LET targetValue == constrain(toFloat(valueStr), 0, 100000)
        s1 == [st EXCEPT !.transitionStartValue = st.currentControlValue,
                         !.targetControlValue = targetValue,
                         !.transitionStartTime = t,
                         !.isTransitioning = TRUE,
                         !.lastUpdateTime = t]
        s2 == IF targetValue = 0
              THEN [s1 EXCEPT !.eventIntensity = 0,
                              !.eventPhase = 0,
                              !.lastEventTime = 0,
                              !.globalTime = 0,
                              !.lastWaveSpawnTime = 0]
              ELSE [s1 EXCEPT
                        !.lastWaveSpawnTime =
                            IF targetValue = NaN THEN NaN
                            ELSE s1.globalTime - waveIntervalOf(targetValue)]
        strip(ts) ==
            LET a == [ts EXCEPT !.controlValue = targetValue, !.lastUpdateTime = t]
            IN  IF targetValue = 0
                THEN [a EXCEPT !.particles = <<>>, !.flashIntensity = 0]
                ELSE a
    IN  [state |-> s2, tidal |-> [i \in 1..2 |-> strip(td[i])], reply |-> "OK_SET"]

\* The f branch of parseCommand, valueStr the text after the comma, t millis().
\* commandF that leaves globalTime as it is when the target is 0.
commandFKeepClock(valueStr, st, td, t) ==
    LET targetValue == constrain(toFloat(valueStr), 0, 100000)
        s1 == [st EXCEPT !.transitionStartValue = st.currentControlValue,
                         !.targetControlValue = targetValue,
                         !.transitionStartTime = t,
                         !.isTransitioning = TRUE,
                         !.lastUpdateTime = t]
        s2 == IF targetValue = 0
              THEN [clearWaves(s1) EXCEPT !.eventIntensity = 0,
                                          !.eventPhase = 0,
                                          !.lastEventTime = 0,
                                          !.lastWaveSpawnTime = 0]
              ELSE [clearWaves(s1) EXCEPT
                        !.lastWaveSpawnTime =
                            IF targetValue = NaN THEN NaN
                            ELSE s1.globalTime - waveIntervalOf(targetValue)]
        strip(ts) ==
            LET a == [ts EXCEPT !.controlValue = targetValue, !.lastUpdateTime = t]
            IN  IF targetValue = 0
                THEN [a EXCEPT !.particles = <<>>, !.flashIntensity = 0]
                ELSE a
    IN  [state |-> s2, tidal |-> [i \in 1..2 |-> strip(td[i])], reply |-> "OK_SET"]

commandF(valueStr, st, td, t) ==
    LET targetValue == constrain(toFloat(valueStr), 0, 100000)
        s1 == [st EXCEPT !.transitionStartValue = st.currentControlValue,
                         !.targetControlValue = targetValue,
                         !.transitionStartTime = t,
                         !.isTransitioning = TRUE,
                         !.lastUpdateTime = t]
        s2 == IF targetValue = 0
              THEN [clearWaves(s1) EXCEPT !.eventIntensity = 0,
                                          !.eventPhase = 0,
                                          !.lastEventTime = 0,
                                          !.globalTime = 0,
                                          !.lastWaveSpawnTime = 0]
              ELSE [clearWaves(s1) EXCEPT
                        !.lastWaveSpawnTime =
                            IF targetValue = NaN THEN NaN
                            ELSE s1.globalTime - waveIntervalOf(targetValue)]
        strip(ts) ==
            LET a == [ts EXCEPT !.controlValue = targetValue, !.lastUpdateTime = t]
            IN  IF targetValue = 0
                THEN [a EXCEPT !.particles = <<>>, !.flashIntensity = 0]
                ELSE a
    IN  [state |-> s2, tidal |-> [i \in 1..2 |-> strip(td[i])], reply |-> "OK_SET"]


\* commandS that does not restart the deltaTime measurement on resume.
commandSNoRebase(st, td, t) ==
    LET paused == ~st.isPaused
    IN  [state |-> [st EXCEPT !.isPaused = paused],
         tidal |-> td,
         reply |-> IF paused THEN "OK_PAUSED" ELSE "OK_RESUMED"]

commandS(st, td, t) ==
    LET paused == ~st.isPaused
    IN  [state |-> [st EXCEPT !.isPaused = paused,
                              !.lastUpdateTime = IF paused THEN @ ELSE t],
         tidal |-> td,
         reply |-> IF paused THEN "OK_PAUSED" ELSE "OK_RESUMED"]

\* commandQ that leaves a running transition running.
commandQKeepTransition(st, td) ==
    [state |-> [st EXCEPT !.targetControlValue = 0,
                          !.currentControlValue = 0],
     tidal |-> [i \in 1..2 |-> [td[i] EXCEPT !.controlValue = 0]],
     reply |-> "OK_QUIT"]

commandQ(st, td) ==
    [state |-> [st EXCEPT !.targetControlValue = 0,
                          !.currentControlValue = 0,
                          !.isTransitioning = FALSE],
     tidal |-> [i \in 1..2 |-> [td[i] EXCEPT !.controlValue = 0]],
     reply |-> "OK_QUIT"]

\* parseCommand(line) at millis() = t: the new state, tidal strips and Serial reply
\* ("NONE": nothing printed).
parseCommand(line, st, td, t) ==
    LET cmd == toLowerCase(trim(line))
    IN  IF Len(cmd) = 0 THEN [state |-> st, tidal |-> td, reply |-> "NONE"]
        ELSE IF startsWith(cmd, <<"f", ",">>)
        THEN LET commaPos == indexOf(cmd, ",")
             IN  IF commaPos >= 0
                 THEN commandF(substring(cmd, commaPos + 1), st, td, t)
                 ELSE [state |-> st, tidal |-> td, reply |-> "NONE"]
        ELSE IF cmd = <<"s">> THEN commandS(st, td, t)
        ELSE IF cmd = <<"q">> THEN commandQ(st, td)
        ELSE [state |-> st, tidal |-> td, reply |-> "ERROR_UNKNOWN"]

\* updateBrightnessTransition that completes only after more than the duration.
updateBrightnessTransitionLate(st, t) ==
    IF ~st.isTransitioning THEN st
    ELSE LET elapsed == t - st.transitionStartTime
         IN  IF elapsed > TRANSITION_TIME_MS
             THEN [st EXCEPT !.currentControlValue = st.targetControlValue,
                             !.isTransitioning = FALSE]
             ELSE [st EXCEPT !.currentControlValue =
                       IF st.transitionStartValue = NaN \/ st.targetControlValue = NaN
                       THEN NaN
                       ELSE st.transitionStartValue
                            + ((st.targetControlValue - st.transitionStartValue) * elapsed)
                              \div TRANSITION_TIME_MS]

updateBrightnessTransition(st, t) ==
    IF ~st.isTransitioning THEN st
    ELSE LET elapsed == t - st.transitionStartTime
         IN  IF elapsed >= TRANSITION_TIME_MS
             THEN [st EXCEPT !.currentControlValue = st.targetControlValue,
                             !.isTransitioning = FALSE]
             ELSE [st EXCEPT !.currentControlValue =
                       IF st.transitionStartValue = NaN \/ st.targetControlValue = NaN
                       THEN NaN
                       ELSE st.transitionStartValue
                            + ((st.targetControlValue - st.transitionStartValue) * elapsed)
                              \div TRANSITION_TIME_MS]

\* The EVERY_N_MILLISECONDS(TRANSITION_UPDATE_INTERVAL) gate of loop() at time t:
\* ready once the interval has passed since the previous trigger.
everyNReady(prev, t) == prev >= 0 /\ t - prev >= TRANSITION_UPDATE_INTERVAL

\* spawnWave that takes the new wave's value from the ramped current value.
spawnWaveFromCurrent(st) ==
    IF st.waveCount >= MAX_WAVES THEN st
    ELSE LET n == st.currentControlValue
             speed == waveSpeedOf(n)
             free == {i \in 1..MAX_WAVES : ~st.waves[i].active}
         IN  IF free = {} THEN st
             ELSE LET i == CHOOSE k \in free : \A m \in free : k <= m
                  IN  [st EXCEPT !.waves[i] = [phase |-> 0, speed |-> speed,
                                               nValue |-> n, active |-> TRUE],
                                 !.waveCount = @ + 1]

\* spawnWave written like spawnParticle: the slot is indexed by waveCount and
\* the capacity is not checked.
spawnWaveByCount(st) ==
    LET n == st.targetControlValue
        i == st.waveCount + 1
    IN  [st EXCEPT !.waves = [k \in 1..MAX_WAVES |->
                                 IF k = ((i - 1) % MAX_WAVES) + 1
                                 THEN [phase |-> 0, speed |-> waveSpeedOf(n),
                                       nValue |-> n, active |-> TRUE]
                                 ELSE st.waves[k]],
                   !.waveCount = @ + 1]

spawnWave(st) ==
    IF st.waveCount >= MAX_WAVES THEN st
    ELSE LET n == st.targetControlValue
             speed == waveSpeedOf(n)
             free == {i \in 1..MAX_WAVES : ~st.waves[i].active}
         IN  IF free = {} THEN st
             ELSE LET i == CHOOSE k \in free : \A m \in free : k <= m
                  IN  [st EXCEPT !.waves[i] = [phase |-> 0, speed |-> speed,
                                               nValue |-> n, active |-> TRUE],
                                 !.waveCount = @ + 1]

\* clampDelta without the clamp: the measured time is applied as it is.
clampDeltaMeasured(raw) == raw

\* the deltaTime of a clock difference in ms: the clamp of updateVirtualPosition and loop
clampDelta(raw) == IF raw > 1000 THEN 16 ELSE raw


\* advanceWaves that moves every wave at the speed of the present target.
advanceWavesLiveSpeed(st, deltaTime) ==
    LET live == waveSpeedOf(st.targetControlValue)
        moved(w) == IF w.active
                    THEN LET p == w.phase + live * deltaTime
                         IN  [w EXCEPT !.phase = p, !.speed = live,
                                       !.active = (p < PHASE_PERIOD)]
                    ELSE w
        retired == {i \in 1..MAX_WAVES :
                        st.waves[i].active /\ ~moved(st.waves[i]).active}
    IN  [st EXCEPT !.waves = [i \in 1..MAX_WAVES |-> moved(st.waves[i])],
                   !.waveCount = @ - Cardinality(retired)]

\* advanceWaves that retires a wave without decrementing waveCount.
advanceWavesNoDecrement(st, deltaTime) ==
    LET moved(w) == IF w.active
                    THEN LET p == w.phase + w.speed * deltaTime
                         IN  [w EXCEPT !.phase = p, !.active = (p < PHASE_PERIOD)]
                    ELSE w
    IN  [st EXCEPT !.waves = [i \in 1..MAX_WAVES |-> moved(st.waves[i])]]

\* the wave loop of updateVirtualPosition: advance each active wave, retire at PHASE_PERIOD
advanceWaves(st, deltaTime) ==
    LET moved(w) == IF w.active
                    THEN LET p == w.phase + w.speed * deltaTime
                         IN  [w EXCEPT !.phase = p, !.active = (p < PHASE_PERIOD)]
                    ELSE w
        retired == {i \in 1..MAX_WAVES :
                        st.waves[i].active /\ ~moved(st.waves[i]).active}
    IN  [st EXCEPT !.waves = [i \in 1..MAX_WAVES |-> moved(st.waves[i])],
                   !.waveCount = @ - Cardinality(retired)]

updateVirtualPosition(st, t) ==
    IF st.isPaused THEN st
    ELSE LET deltaTime == clampDelta(t - st.lastUpdateTime)
             g == st.globalTime + deltaTime
             s1 == [st EXCEPT !.lastUpdateTime = t, !.globalTime = g]
             waveInterval == waveIntervalOf(s1.targetControlValue)
             s2 == IF /\ s1.lastWaveSpawnTime # NaN
                      /\ waveInterval # NaN
                      /\ g - s1.lastWaveSpawnTime >= waveInterval
                   THEN [spawnWave(s1) EXCEPT !.lastWaveSpawnTime = g]
                   ELSE s1
         IN  advanceWaves(s2, deltaTime)

---------------------------------------------------------------------------
(* The compositor of renderFunctionB.  Virtual positions and phases are in     *)
(* 1/1000000, n in 1/1000, contributions in 1/1000000 of full brightness.      *)

\* k = smoothstep(0, 1, constrain(n / 100, 0, 1)), in 1/1000
easedControl(n) ==
    IF n = NaN THEN NaN ELSE smoothstep(0, 1000, constrain(n \div 100, 0, 1000))

absDiff(a, b) == IF a >= b THEN a - b ELSE b - a

calculateStretchedPos(basePos, n) ==
    LET s == easedControl(n)
    IN  IF basePos = 1000000
        THEN (IF s = NaN THEN NaN
              ELSE LET pos == 1000000 - 1000 * s IN IF pos >= 0 THEN pos ELSE 0)
        ELSE IF basePos = 20000000
        THEN (IF s = NaN THEN NaN
              ELSE LET pos == 20000000 + 1000 * s
                   IN  IF pos < PHASE_PERIOD THEN pos ELSE PHASE_PERIOD - 100)
        ELSE basePos

calculateSingleWaveContribution(pos, wavePhase, n) ==
    LET k == easedControl(n)
        width == 1000 * lerpFloat(1500, 800, k)
        depth == 1000 * lerpFloat(300, 850, k)
        edge == width \div 5
        absD == absDiff(pos, wavePhase)
    IN  IF pos = NaN \/ wavePhase = NaN THEN 0
        ELSE IF k = NaN THEN (IF pos < wavePhase THEN NaN ELSE 0)
        ELSE IF absD > width THEN 0
        ELSE IF pos < wavePhase
        THEN (IF absD <= edge
              THEN (depth * smoothstep(0, 1000, (absD * 1000) \div edge)) \div 1000
              ELSE depth)
        ELSE (IF absD <= edge
              THEN (depth * (1000 - smoothstep(0, 1000, (absD * 1000) \div edge))) \div 1000
              ELSE 0)

\* the Arduino macro max(a, b) = ((a) > (b) ? (a) : (b)): b when either is NaN
maxMacro(a, b) == IF a # NaN /\ b # NaN /\ a > b THEN a ELSE b

\* the loop of calculateMainDarkWave over the slots i .. MAX_WAVES
RECURSIVE darkWaveLoop(_, _, _, _)
darkWaveLoop(pos, st, i, total) ==
    IF i > MAX_WAVES THEN total
    ELSE darkWaveLoop(pos, st, i + 1,
             IF st.waves[i].active
             THEN maxMacro(total,
                           calculateSingleWaveContribution(pos, st.waves[i].phase,
                                                           st.waves[i].nValue))
             ELSE total)

calculateMainDarkWave(pos, st) == darkWaveLoop(pos, st, 1, 0)

\* gain * exp(-(d - 0.4)^2 / 0.6^2) of one wave for 0.4 < d < 2.2, and -1
\* where the wave is skipped; exp(-x) is expDecay at x / 5 s
overshootOfWave(pos, w) ==
    LET gain == lerpFloat(50, 250, easedControl(w.nValue))
        d == absDiff(pos, w.phase)
        y == (d - 400000) \div 1000
    IN  IF pos = NaN \/ w.phase = NaN THEN -1
        ELSE IF d > 400000 /\ d < 2200000
        THEN (IF gain = NaN THEN NaN ELSE (gain * expDecay((y * y) \div 1800)) \div 1000)
        ELSE -1

\* the loop of calculateOvershoot over the slots i .. MAX_WAVES
RECURSIVE overshootLoop(_, _, _, _)
overshootLoop(pos, st, i, total) ==
    IF i > MAX_WAVES THEN total
    ELSE overshootLoop(pos, st, i + 1,
             IF st.waves[i].active /\ overshootOfWave(pos, st.waves[i]) # -1
             THEN maxMacro(total, overshootOfWave(pos, st.waves[i]))
             ELSE total)

calculateOvershoot(pos, st) == overshootLoop(pos, st, 1, 0)

\* The values (uint8_t) constrain(20 + controlValue / 100 * 20, 20, 40) can
\* take: the conversion of NaN to uint8_t is undefined, any value may result.
mapControlToBrightnessA(controlValue) ==
    IF controlValue = NaN THEN 0..255
    ELSE {constrain(20 + controlValue \div 5000, 20, 40)}

\* the LEDs of group g that renderFunctionA writes: a..b (0% - 25%) and c..d
\* (75% - 100%), which renderFunctionB leaves alone
segmentsA(g) ==
    (0 .. (LEDS_PER_GROUP[g] \div 4) - 1)
        \cup ((3 * LEDS_PER_GROUP[g]) \div 4 .. LEDS_PER_GROUP[g] - 1)

\* renderFunctionA(g): for each LED it writes, the values V of CHSV(0, 255, V)
\* it can hold afterwards, 0 for CRGB::Black
renderFunctionA(st, g) ==
    [i \in segmentsA(g) |->
        IF i % 3 = 0 THEN mapControlToBrightnessA(st.currentControlValue) ELSE {0}]

\* updateEventLayer(&state, deltaTime) at millis() = t, r the outcome of random
updateEventLayer(st, deltaTime, t, r) ==
    LET n == st.currentControlValue
    IN  IF n # NaN /\ n < 70000 THEN [st EXCEPT !.eventIntensity = 0]
        ELSE IF st.eventIntensity > 0
        THEN LET p == st.eventPhase + deltaTime * 8000
             IN  [st EXCEPT !.eventPhase = p,
                            !.eventIntensity = IF p >= PHASE_PERIOD THEN 0 ELSE @]
        ELSE IF t - st.lastEventTime >= EVENT_COOLDOWN
        THEN LET rate == lerpFloat(50, 350, IF n = NaN THEN NaN ELSE (n - 70000) \div 30)
             IN  IF rate # NaN /\ randomUnit(r) < rate * deltaTime
                 THEN [st EXCEPT !.eventIntensity = 1000,
                                 !.eventPhase = 0,
                                 !.lastEventTime = t]
                 ELSE st
        ELSE st

\* Step 3 of loop(): the event layer runs only when not paused, with the
\* deltaTime measured since updateVirtualPosition's clock read.
eventStep(st, t, r) ==
    IF st.isPaused THEN st
    ELSE updateEventLayer(st, clampDelta(t - st.lastUpdateTime), t, r)

---------------------------------------------------------------------------
(* Tidal bridge strips: particles and flash.  particles holds the live slots   *)
(* particles[0 .. particleCount-1] of the sketch's array, so particleCount is  *)
(* Len(particles); id is history, the loop pass that spawned the particle.     *)
(* flashIntensity is in 1/1000000.                                             *)

particleCount(ts) == Len(ts.particles)

\* s = mapControlValue(controlValue) / 100
tidalS(ts) ==
    IF ts.controlValue = NaN THEN NaN ELSE mapControlValue(ts.controlValue) \div 100

\* particleLoop that sends a particle past the end back to the start instead
\* of removing it.
RECURSIVE particleLoopRecycle(_, _, _, _, _)
particleLoopRecycle(ps, i, totalLEDs, s, deltaTime) ==
    IF i < 1 THEN ps
    ELSE LET p == ps[i]
             baseSpeed == lerpFloat(10000, 260000, s)
             u == IF p.x = NaN THEN NaN ELSE p.x \div (totalLEDs - 1)
             accelMask == smoothstep(ACCEL_START_U, 1000, u)
             speedMul == IF accelMask = NaN \/ s = NaN THEN NaN
                         ELSE 1000 + (accelMask * lerpFloat(0, 2500, s)) \div 1000
             x2 == IF p.x = NaN \/ baseSpeed = NaN \/ speedMul = NaN THEN NaN
                   ELSE p.x + (((baseSpeed * speedMul) \div 1000) * deltaTime) \div 1000
             next == [ps EXCEPT ![i].x = IF x2 # NaN /\ x2 >= totalLEDs * 1000 THEN 0 ELSE x2]
         IN  particleLoopRecycle(next, i - 1, totalLEDs, s, deltaTime)

\* the loop of updateParticles from index i (1-based) down to the first slot
RECURSIVE particleLoop(_, _, _, _, _)
particleLoop(ps, i, totalLEDs, s, deltaTime) ==
    IF i < 1 THEN ps
    ELSE LET p == ps[i]
             baseSpeed == lerpFloat(10000, 260000, s)
             u == IF p.x = NaN THEN NaN ELSE p.x \div (totalLEDs - 1)
             accelMask == smoothstep(ACCEL_START_U, 1000, u)
             speedMul == IF accelMask = NaN \/ s = NaN THEN NaN
                         ELSE 1000 + (accelMask * lerpFloat(0, 2500, s)) \div 1000
             x2 == IF p.x = NaN \/ baseSpeed = NaN \/ speedMul = NaN THEN NaN
                   ELSE p.x + (((baseSpeed * speedMul) \div 1000) * deltaTime) \div 1000
             moved == [ps EXCEPT ![i].x = x2]
             last == Len(ps)
             next == IF x2 # NaN /\ x2 >= totalLEDs * 1000
                     THEN SubSeq(IF i < last THEN [moved EXCEPT ![i] = moved[last]]
                                             ELSE moved,
                                 1, last - 1)
                     ELSE moved
         IN  particleLoop(next, i - 1, totalLEDs, s, deltaTime)

\* updateParticles without the early return that clears the particles of a
\* strip whose control value is 0.
updateParticlesKeep(ts, totalLEDs, deltaTime) ==
    [ts EXCEPT !.particles =
         particleLoop(ts.particles, Len(ts.particles), totalLEDs, tidalS(ts), deltaTime)]

updateParticles(ts, totalLEDs, deltaTime) ==
    IF ts.controlValue # NaN /\ ts.controlValue <= 0 THEN [ts EXCEPT !.particles = <<>>]
    ELSE [ts EXCEPT !.particles =
              particleLoop(ts.particles, Len(ts.particles), totalLEDs, tidalS(ts), deltaTime)]

\* rEnergy, rHue the outcomes of random for the two randomFloat calls
spawnParticle(ts, totalLEDs, id, rEnergy, rHue) ==
    IF particleCount(ts) >= MAX_PARTICLES THEN ts
    ELSE IF ts.controlValue # NaN /\ ts.controlValue <= 0 THEN ts
    ELSE LET p16 == pow16(tidalS(ts))
             rate == IF p16 = NaN THEN NaN ELSE 200 + (118 * p16) \div 10000
             timeSinceLastSpawn == ts.globalTime - ts.lastParticleSpawnTime
             spawnInterval == IF rate = NaN THEN NaN ELSE 1000000 \div rate
         IN  IF spawnInterval # NaN /\ timeSinceLastSpawn >= spawnInterval
             THEN [ts EXCEPT !.particles =
                                 Append(@, [x |-> 0,
                                            energy |-> randomFloat(500, 1000, rEnergy),
                                            hueShift |-> randomFloat(-10000, 10000, rHue),
                                            id |-> id]),
                             !.lastParticleSpawnTime = ts.globalTime]
             ELSE ts

\* updateFlashEffect that keeps a decayed intensity below 0.01 as it is.
updateFlashEffectNoFloor(ts, deltaTime, r) ==
    LET n_mapped == mapControlValue(ts.controlValue)
        decayed == IF ts.flashIntensity > 0
                   THEN [ts EXCEPT !.flashIntensity =
                                       expDecay(ts.globalTime - ts.flashStartTime)]
                   ELSE ts
    IN  IF n_mapped # NaN /\ n_mapped > 85000 /\ decayed.flashIntensity = 0
        THEN IF decayed.globalTime - decayed.lastFlashCheckTime >= 1000
             THEN LET x == (n_mapped - 85000) \div 15
                      p == (x * x * 6) \div 10
                      hit == IF randomUnit(r) < p
                             THEN [decayed EXCEPT !.flashIntensity = 1000000,
                                                  !.flashStartTime = decayed.globalTime]
                             ELSE decayed
                  IN  [hit EXCEPT !.lastFlashCheckTime = decayed.globalTime]
             ELSE decayed
        ELSE decayed

updateFlashEffect(ts, deltaTime, r) ==
    LET n_mapped == mapControlValue(ts.controlValue)
        decayed == IF ts.flashIntensity > 0
                   THEN LET e == expDecay(ts.globalTime - ts.flashStartTime)
                        IN  [ts EXCEPT !.flashIntensity = IF e < 10000 THEN 0 ELSE e]
                   ELSE ts
    IN  IF n_mapped # NaN /\ n_mapped > 85000 /\ decayed.flashIntensity = 0
        THEN IF decayed.globalTime - decayed.lastFlashCheckTime >= 1000
             THEN LET x == (n_mapped - 85000) \div 15
                      p == (x * x * 6) \div 10
                      hit == IF randomUnit(r) < p
                             THEN [decayed EXCEPT !.flashIntensity = 1000000,
                                                  !.flashStartTime = decayed.globalTime]
                             ELSE decayed
                  IN  [hit EXCEPT !.lastFlashCheckTime = decayed.globalTime]
             ELSE decayed
        ELSE decayed

\* Step 5 of loop() for one strip at millis() = t: the clock, then the particle
\* system and the flash.
tidalStep(ts, totalLEDs, t, id, rEnergy, rHue, rFlash) ==
    LET base == IF ts.lastUpdateTime = 0 THEN t ELSE ts.lastUpdateTime
        deltaTime == clampDelta(t - base)
        a == [ts EXCEPT !.lastUpdateTime = t, !.globalTime = @ + deltaTime]
        b == updateParticles(a, totalLEDs, deltaTime)
        c == spawnParticle(b, totalLEDs, id, rEnergy, rHue)
    IN  updateFlashEffect(c, deltaTime, rFlash)


---------------------------------------------------------------------------
(* Earlier LED sketches (src/灯带/sketch_nov20a/sketch_nov20a.ino and           *)
(* src/unnamed/part_001): one global virtual position on the ring 1..20.      *)
(* Positions are in 1/1000000, control values and speeds in 1/1000, times in  *)
(* milliseconds, so that speed * deltaTime is a position.                     *)

VIRTUAL_POS_MIN == 1000000
VIRTUAL_POS_MAX == 20000000

\* while (state.globalVirtualPos > VIRTUAL_POS_MAX) state.globalVirtualPos -= ...
RECURSIVE wrapAbove(_)
wrapAbove(pos) ==
    IF pos > VIRTUAL_POS_MAX
    THEN wrapAbove(pos - (VIRTUAL_POS_MAX - VIRTUAL_POS_MIN + 1000000))
    ELSE pos

\* while (state.globalVirtualPos < VIRTUAL_POS_MIN) state.globalVirtualPos += ...
RECURSIVE wrapBelow(_)
wrapBelow(pos) ==
    IF pos < VIRTUAL_POS_MIN
    THEN wrapBelow(pos + (VIRTUAL_POS_MAX - VIRTUAL_POS_MIN + 1000000))
    ELSE pos

\* updateVirtualPosition of sketch_nov20a: the speed follows the target value
\* and a delta time above one second is replaced by 16 ms
updateVirtualPositionNov20a(st, currentTime) ==
    IF st.isPaused THEN st
    ELSE LET raw == currentTime - st.lastUpdateTime
             deltaTime == IF raw > 1000 THEN 16 ELSE raw
             speed == st.targetControlValue + 10000
             moved == st.globalVirtualPos + speed * deltaTime
         IN  [st EXCEPT !.lastUpdateTime = currentTime,
                        !.globalVirtualPos = wrapBelow(wrapAbove(moved))]

\* updateVirtualPosition of part_001: the speed follows the current value and
\* the delta time is taken as measured
updateVirtualPositionPart001(st, currentTime) ==
    IF st.isPaused THEN st
    ELSE LET deltaTime == currentTime - st.lastUpdateTime
             speed == st.currentControlValue + 10000
             moved == st.globalVirtualPos + speed * deltaTime
         IN  [st EXCEPT !.lastUpdateTime = currentTime,
                        !.globalVirtualPos = wrapBelow(wrapAbove(moved))]

---------------------------------------------------------------------------
(* Multi-component controller (src/Machanic/Function.ino).                    *)
(* The sketch targets an AVR board (pins D54..D56 are A0..A2 of a Mega): int   *)
(* has 16 bits and unsigned long 32.  An unsigned long is written as the       *)
(* 32-bit two's complement integer with the same bits, so the values from      *)
(* 2^31 up are the negative numbers, and is compared with ulongLess.           *)

\* the value an int holds after a result x that does not fit wraps around
wrap16(x) == ((x + 32768) % 65536) - 32768

\* integer division of C, which truncates toward zero
truncDiv(a, b) == IF a >= 0 THEN a \div b ELSE 0 - ((0 - a) \div b)

\* a < b for two unsigned long
ulongLess(a, b) == IF (a < 0) = (b < 0) THEN a < b ELSE b < 0

\* the two outcomes of an int overflow, which is undefined: the build folds
\* the expression so that no product is formed, or it computes the product in
\* 16 bits, where it wraps around
Builds == {"folded", "wrapped"}

\* (unsigned long)(15000 * percent / 100), computed in int, as one build
\* computes it.  The product overflows int from percent 3 on.
calculateDurationOn(how, percent) ==
    IF 15000 * percent <= 32767 THEN truncDiv(15000 * percent, 100)
    ELSE IF how = "folded" THEN 150 * percent
    ELSE truncDiv(wrap16(15000 * percent), 100)

\* the values a call of calculateDuration can return
calculateDuration(percent) == {calculateDurationOn(how, percent) : how \in Builds}

NUM_ACTUATORS == 14
RPWM_PINS == <<2, 2, 2, 2, 2, 2, 4, 4, 4, 4, 4, 4, 4, 4>>
LPWM_PINS == <<3, 3, 3, 3, 3, 3, 5, 5, 5, 5, 5, 5, 5, 5>>
R_EN_PINS == <<22, 24, 26, 28, 30, 32, 34, 36, 38, 40, 42, 44, 46, 48>>
L_EN_PINS == <<23, 25, 27, 29, 31, 33, 35, 37, 39, 41, 43, 45, 47, 49>>
STEPPER_STEP_PIN == 54
STEPPER_DIR_PIN == 55
STEPPER_ENA_PIN == 56
SERVO_PIN == 9
CMD_BUFFER_SIZE == 40
LOW == 0
HIGH == 1

\* the output pins the controller drives; the value of a PWM pin is its duty
\* (0..255), of a digital pin LOW or HIGH, of the servo pin the angle written
ControllerPins ==
    {RPWM_PINS[i] : i \in 1..NUM_ACTUATORS} \cup {LPWM_PINS[i] : i \in 1..NUM_ACTUATORS}
    \cup {R_EN_PINS[i] : i \in 1..NUM_ACTUATORS} \cup {L_EN_PINS[i] : i \in 1..NUM_ACTUATORS}
    \cup {STEPPER_STEP_PIN, STEPPER_DIR_PIN, STEPPER_ENA_PIN, SERVO_PIN}

\* the direction of a MotionState that was never set: the zero character
NUL == "NUL"

\* The handlers below work on a record m of what they read and change:
\*   systemState, stepperRunning, cmdBuffer, cmdIndex: the sketch's globals;
\*   pins: the value last written to each output pin;
\*   pinWrites: the pin writes made so far in this pass of loop(), in order;
\*   millis: the clock, which runs on during delay();
\*   serial: the characters waiting on Serial;
\*   build: how this build computes an overflowing int product;
\*   handled, lastMain, lastAccepted, lineLength: history, see the variables.

\* the last value a sequence of writes gives a pin
lastWritten(writes, pin) ==
    writes[CHOOSE k \in 1..Len(writes) :
               writes[k][1] = pin /\ \A j \in (k + 1)..Len(writes) : writes[j][1] # pin][2]

\* pin writes made one after the other, each <<pin, value>>
writePins(m, writes0) ==
    once(LAMBDA writes :
             [m EXCEPT !.pins = [p \in DOMAIN @ |->
                                    IF \E k \in 1..Len(writes) : writes[k][1] = p
                                    THEN lastWritten(writes, p) ELSE @[p]],
                       !.pinWrites = @ \o writes],
         writes0)

\* digitalWrite, analogWrite and Servo::write
writePin(m, pin, value) == writePins(m, <<<<pin, value>>>>)

delay(m, ms) == [m EXCEPT !.millis = @ + ms]

\* the writes of  for (i = start; i <= end; i++) { digitalWrite(R_EN_PINS[i],
\* level); digitalWrite(L_EN_PINS[i], level); }  with i counted from 1
enableLoop(start, end, level) ==
    [k \in 1..(2 * (end - start + 1)) |->
        <<IF k % 2 = 1 THEN R_EN_PINS[start + (k - 1) \div 2]
          ELSE L_EN_PINS[start + (k - 1) \div 2],
          level>>]

\* first and last actuator of a group, counted from 1
groupStart(group) == IF group = 1 THEN 1 ELSE 7
groupEnd(group) == IF group = 1 THEN 6 ELSE 14

setGroup(m, group, field, value) ==
    IF group = 1 THEN [m EXCEPT !.systemState.group1[field] = value]
    ELSE [m EXCEPT !.systemState.group2[field] = value]

stopGroup(m, group) ==
    IF group \notin {1, 2} THEN m
    ELSE setGroup(
             writePins(m, enableLoop(groupStart(group), groupEnd(group), LOW)
                          \o <<<<RPWM_PINS[groupStart(group)], 0>>,
                               <<LPWM_PINS[groupStart(group)], 0>>>>),
             group, "isRunning", FALSE)

\* moveGroupForward that does not stop the group first
moveGroupForwardNoStop(m, group, speed) ==
    IF group \notin {1, 2} THEN m
    ELSE setGroup(
             setGroup(
                 writePins(delay(m, 10),
                           enableLoop(groupStart(group), groupEnd(group), HIGH)
                           \o <<<<RPWM_PINS[groupStart(group)], speed>>,
                                <<LPWM_PINS[groupStart(group)], 0>>>>),
                 group, "isRunning", TRUE),
             group, "direction", "F")

moveGroupForward(m, group, speed) ==
    IF group \notin {1, 2} THEN m
    ELSE setGroup(
             setGroup(
                 writePins(delay(stopGroup(m, group), 10),
                           enableLoop(groupStart(group), groupEnd(group), HIGH)
                           \o <<<<RPWM_PINS[groupStart(group)], speed>>,
                                <<LPWM_PINS[groupStart(group)], 0>>>>),
                 group, "isRunning", TRUE),
             group, "direction", "F")

moveGroupBackward(m, group, speed) ==
    IF group \notin {1, 2} THEN m
    ELSE setGroup(
             setGroup(
                 writePins(delay(stopGroup(m, group), 10),
                           enableLoop(groupStart(group), groupEnd(group), HIGH)
                           \o <<<<RPWM_PINS[groupStart(group)], 0>>,
                                <<LPWM_PINS[groupStart(group)], speed>>>>),
                 group, "isRunning", TRUE),
             group, "direction", "B")

\* stopStepper; the STEP pulse train itself (updateStepperPosition, every
\* 500 us) is below the resolution of the clock and is not modelled
stopStepper(m) ==
    [writePin(m, STEPPER_STEP_PIN, LOW)
         EXCEPT !.stepperRunning = FALSE, !.systemState.stepper.isRunning = FALSE]

startStepper(m, left, percent) ==
    [writePin(m, STEPPER_DIR_PIN, IF left THEN LOW ELSE HIGH)
         EXCEPT !.stepperRunning = TRUE,
                !.systemState.stepper =
                    [isRunning |-> TRUE,
                     startTime |-> m.millis,
                     duration |-> calculateDurationOn(m.build, percent),
                     direction |-> IF left THEN "L" ELSE "R",
                     percent |-> percent]]

setServoAngle(m, targetAngle, percent) ==
    [writePin(m, SERVO_PIN,
              constrain(truncDiv(wrap16(targetAngle * percent), 100), 0, 180))
         EXCEPT !.systemState.servo.isRunning = TRUE,
                !.systemState.servo.startTime = m.millis,
                !.systemState.servo.duration = calculateDurationOn(m.build, percent),
                !.systemState.servo.percent = percent]


startMainMotion(m0, percent, direction) ==
    once(LAMBDA m :
             [(IF direction = "F"
               THEN setServoAngle(
                        startStepper(
                            moveGroupForward(
                                moveGroupForward(
                                    [m EXCEPT !.systemState.lastPercent = percent], 1, 255),
                                2, 255),
                            FALSE, percent),
                        180, percent)
               ELSE setServoAngle(
                        startStepper(
                            moveGroupBackward(
                                moveGroupBackward(
                                    [m EXCEPT !.systemState.lastPercent = percent], 1, 255),
                                2, 255),
                            TRUE, percent),
                        0, percent))
                 EXCEPT !.systemState.group1 =
                            [isRunning |-> TRUE, startTime |-> m.millis,
                             duration |-> calculateDurationOn(m.build, percent),
                             direction |-> direction, percent |-> percent],
                        !.systemState.group2 =
                            [isRunning |-> TRUE, startTime |-> m.millis,
                             duration |-> calculateDurationOn(m.build, percent),
                             direction |-> direction, percent |-> percent],
                        !.systemState.mainState = "RUNNING",
                        !.systemState.stateStartTime = m.millis],
         m0)


\* stopAllMotion that leaves group 2 as it is
stopAllMotionGroup1Only(m) ==
    [stopStepper(stopGroup(m, 1))
         EXCEPT !.systemState.group1.isRunning = FALSE,
                !.systemState.group2.isRunning = FALSE,
                !.systemState.stepper.isRunning = FALSE,
                !.systemState.servo.isRunning = FALSE]

stopAllMotion(m) ==
    [stopStepper(stopGroup(stopGroup(m, 1), 2))
         EXCEPT !.systemState.group1.isRunning = FALSE,
                !.systemState.group2.isRunning = FALSE,
                !.systemState.stepper.isRunning = FALSE,
                !.systemState.servo.isRunning = FALSE]

resetMainMotion(m0) ==
    once(LAMBDA m :
             once(LAMBDA a :
                      [a EXCEPT !.systemState.mainState = "RESETTING",
                                !.systemState.stateStartTime = a.millis,
                                !.lastMain.resetDirection =
                                    IF m.systemState.group1.direction = "F" THEN "B" ELSE "F",
                                !.lastMain.resetPercent = m.systemState.lastPercent],
                  startMainMotion(m, m.systemState.lastPercent,
                                  IF m.systemState.group1.direction = "F" THEN "B" ELSE "F")),
         m0)

\* ms.isRunning && (now - ms.startTime < ms.duration)
stillMoving(ms, t) == ms.isRunning /\ ulongLess(t - ms.startTime, ms.duration)

\* the test of updateMainStateMachine that every component has finished
allDone(m) ==
    ~ \/ stillMoving(m.systemState.group1, m.millis)
      \/ stillMoving(m.systemState.group2, m.millis)
      \/ stillMoving(m.systemState.stepper, m.millis)
      \/ stillMoving(m.systemState.servo, m.millis)

updateMainStateMachine(m0) ==
    once(LAMBDA m :
             CASE m.systemState.mainState = "RUNNING" /\ allDone(m) ->
                      [stopAllMotion(m) EXCEPT !.systemState.mainState = "STOPPING",
                                               !.systemState.stateStartTime = m.millis]
               [] m.systemState.mainState = "STOPPING"
                    /\ ~ulongLess(m.millis - m.systemState.stateStartTime, 10000) ->
                      resetMainMotion(m)
               [] m.systemState.mainState = "RESETTING" /\ allDone(m) ->
                      [stopAllMotion(m) EXCEPT !.systemState.mainState = "IDLE"]
               [] OTHER -> m,
         m0)

\* the part of executeDebugCommand for one group, taken when the command
\* names the group
debugGroup(m, wanted, cmd, group, duration, t) ==
    IF ~wanted THEN m
    ELSE IF cmd.debugDirection \in {"F", "B"}
    THEN setGroup(
             setGroup(
                 setGroup(IF cmd.debugDirection = "F" THEN moveGroupForward(m, group, 255)
                          ELSE moveGroupBackward(m, group, 255),
                          group, "startTime", t),
                 group, "duration", duration),
             group, "percent", cmd.debugPercent)
    ELSE stopGroup(m, group)

\* the part of executeDebugCommand for the stepper
debugStepper(m, cmd) ==
    IF cmd.isStepper \/ cmd.isAll
    THEN (IF cmd.debugDirection = "L" THEN startStepper(m, TRUE, cmd.debugPercent)
          ELSE IF cmd.debugDirection = "R" THEN startStepper(m, FALSE, cmd.debugPercent)
          ELSE stopStepper(m))
    ELSE m

\* the part of executeDebugCommand for the servo
debugServo(m, cmd) ==
    IF (cmd.isServo \/ cmd.isAll) /\ cmd.debugDirection # "S"
    THEN setServoAngle(m, cmd.servoTargetAngle, cmd.debugPercent)
    ELSE m

executeDebugCommand(m0, cmd) ==
    once(LAMBDA m :
             debugServo(
                 debugStepper(
                     debugGroup(
                         debugGroup(m, cmd.isGroup1 \/ cmd.isAll, cmd, 1,
                                    calculateDurationOn(m.build, cmd.debugPercent), m.millis),
                         cmd.isGroup2 \/ cmd.isAll, cmd, 2,
                         calculateDurationOn(m.build, cmd.debugPercent), m.millis),
                     cmd),
                 cmd),
         m0)

\* the parts of resetToInitialState
resetActuators(m, actuators) ==
    IF actuators
    THEN once(LAMBDA x :
                  [x EXCEPT !.systemState.initState = "INIT_ACTUATORS_FORWARD",
                            !.systemState.initStartTime = x.millis,
                            !.systemState.initActuators = TRUE,
                            !.systemState.group1 =
                                [@ EXCEPT !.isRunning = TRUE, !.startTime = x.millis,
                                          !.duration = 33300, !.direction = "F"],
                            !.systemState.group2 =
                                [@ EXCEPT !.isRunning = TRUE, !.startTime = x.millis,
                                          !.duration = 33300, !.direction = "F"]],
              moveGroupForward(moveGroupForward(m, 1, 255), 2, 255))
    ELSE [m EXCEPT !.systemState.initActuators = FALSE]

resetStepper(m, stepper) ==
    IF stepper
    THEN [stopStepper(m) EXCEPT !.systemState.initStepper = TRUE]
    ELSE [m EXCEPT !.systemState.initStepper = FALSE]

resetServo(m, servo) ==
    IF servo
    THEN [writePin(m, SERVO_PIN, 0) EXCEPT !.systemState.servo.isRunning = FALSE,
                                           !.systemState.initServo = TRUE]
    ELSE [m EXCEPT !.systemState.initServo = FALSE]

resetFinish(m, nothing) ==
    IF nothing THEN [m EXCEPT !.systemState.initState = "INIT_IDLE"] ELSE m

resetToInitialState(m, actuators, stepper, servo) ==
    resetFinish(
        resetServo(resetStepper(resetActuators(m, actuators), stepper), servo),
        ~actuators /\ ~stepper /\ ~servo)

updateInitStateMachine(m0) ==
    once(LAMBDA m :
             CASE m.systemState.initState = "INIT_ACTUATORS_FORWARD"
                    /\ ~ulongLess(m.millis - m.systemState.initStartTime, 33300) ->
                      [moveGroupBackward(moveGroupBackward(m, 1, 255), 2, 255)
                           EXCEPT !.systemState.initState = "INIT_ACTUATORS_BACKWARD",
                                  !.systemState.initStartTime = m.millis,
                                  !.systemState.group1 =
                                      [@ EXCEPT !.isRunning = TRUE, !.startTime = m.millis,
                                                !.duration = 16700, !.direction = "B"],
                                  !.systemState.group2 =
                                      [@ EXCEPT !.isRunning = TRUE, !.startTime = m.millis,
                                                !.duration = 16700, !.direction = "B"]]
               [] m.systemState.initState = "INIT_ACTUATORS_BACKWARD"
                    /\ ~ulongLess(m.millis - m.systemState.initStartTime, 16700) ->
                      [stopGroup(stopGroup(m, 1), 2)
                           EXCEPT !.systemState.initState = "INIT_COMPLETE"]
               [] m.systemState.initState = "INIT_COMPLETE" ->
                      [m EXCEPT !.systemState.initState = "INIT_IDLE"]
               [] OTHER -> m,
         m0)

\* the end of updateStepperPosition: the stepper stops when its time is up
updateStepperPosition(m0) ==
    once(LAMBDA m :
             IF m.stepperRunning /\ m.systemState.stepper.isRunning
                /\ ~ulongLess(m.millis - m.systemState.stepper.startTime,
                              m.systemState.stepper.duration)
             THEN stopStepper(m)
             ELSE m,
         m0)


---------------------------------------------------------------------------
(* Multi-component controller: parseCommand and applyCommand.  A String is   *)
(* the sequence of its characters.                                            *)

LowerLetters ==
    <<"a", "b", "c", "d", "e", "f", "g", "h", "i", "j", "k", "l", "m",
      "n", "o", "p", "q", "r", "s", "t", "u", "v", "w", "x", "y", "z">>
UpperLetters ==
    <<"A", "B", "C", "D", "E", "F", "G", "H", "I", "J", "K", "L", "M",
      "N", "O", "P", "Q", "R", "S", "T", "U", "V", "W", "X", "Y", "Z">>

toUpperChar(c) ==
    IF \E i \in 1..26 : LowerLetters[i] = c
    THEN UpperLetters[CHOOSE i \in 1..26 : LowerLetters[i] = c]
    ELSE c

toUpperCase(str0) ==
    once(LAMBDA str : [i \in 1..Len(str) |-> toUpperChar(str[i])], str0)

\* String::substring(left, right), 0-based, right exclusive: the two are
\* swapped when left > right, and right is cut to the length
substringTo(str0, left, right) ==
    once(LAMBDA str :
             IF left > right
             THEN (IF right >= Len(str) THEN <<>>
                   ELSE SubSeq(str, right + 1, IF left > Len(str) THEN Len(str) ELSE left))
             ELSE (IF left >= Len(str) THEN <<>>
                   ELSE SubSeq(str, left + 1, IF right > Len(str) THEN Len(str) ELSE right)),
         str0)

\* String::indexOf(String), 0-based, -1 when pattern does not occur
indexOfString(str0, pattern) ==
    once(LAMBDA str :
             IF \E i \in 1..(Len(str) - Len(pattern) + 1) :
                    SubSeq(str, i, i + Len(pattern) - 1) = pattern
             THEN (CHOOSE i \in 1..(Len(str) - Len(pattern) + 1) :
                       /\ SubSeq(str, i, i + Len(pattern) - 1) = pattern
                       /\ \A j \in 1..(i - 1) :
                              SubSeq(str, j, j + Len(pattern) - 1) # pattern) - 1
             ELSE -1,
         str0)

\* String::toInt, i.e. atol, assigned to an int: white space, an optional
\* sign, digits; 0 when no digit follows
toInt(str) ==
    once(LAMBDA a :
             wrap16(IF a # <<>> /\ Head(a) = "-" THEN 0 - intOf(digitPrefix(Tail(a)))
                    ELSE IF a # <<>> /\ Head(a) = "+" THEN intOf(digitPrefix(Tail(a)))
                    ELSE intOf(digitPrefix(a))),
         trimLeft(str))

\* a ParsedCommand with every flag false, as parseCommand first sets it.  The
\* other fields are not initialised; they are read only after parseCommand has
\* set them, and are given fixed values here.
NoCommand ==
    [isMainMode |-> FALSE, isStop |-> FALSE, isStart |-> FALSE,
     startActuators |-> FALSE, startStepper |-> FALSE, startServo |-> FALSE,
     startAll |-> FALSE, mainDirection |-> NUL, mainPercent |-> 0,
     isGroup1 |-> FALSE, isGroup2 |-> FALSE, isStepper |-> FALSE, isServo |-> FALSE,
     isAll |-> FALSE, debugDirection |-> NUL, debugPercent |-> 0, servoTargetAngle |-> 0]

ACTUATORS == <<"A", "C", "T", "U", "A", "T", "O", "R", "S">>
STEPPER == <<"S", "T", "E", "P", "P", "E", "R">>
SERVO == <<"S", "E", "R", "V", "O">>
ALL == <<"A", "L", "L">>
START == <<"S", "T", "A", "R", "T">>
GROUP1 == <<"G", "R", "O", "U", "P", "1">>
GROUP2 == <<"G", "R", "O", "U", "P", "2">>

\* the START branch of parseCommand: the command as it leaves the branch, and
\* whether the branch returned true
parseStart(upperLine) ==
    LET out == [NoCommand EXCEPT !.isStart = TRUE]
        commaPos == indexOf(upperLine, ",")
        target == trim(substring(upperLine, commaPos + 1))
        plusPos == indexOf(target, "+")
        part1 == trim(substringTo(target, 0, plusPos))
        part2 == trim(substring(target, plusPos + 1))
        chosen == IF plusPos > 0
                  THEN [out EXCEPT !.startActuators = ACTUATORS \in {part1, part2},
                                   !.startStepper = STEPPER \in {part1, part2},
                                   !.startServo = SERVO \in {part1, part2}]
                  ELSE [out EXCEPT !.startActuators = target \in {ACTUATORS, ALL},
                                   !.startStepper = target \in {STEPPER, ALL},
                                   !.startServo = target \in {SERVO, ALL},
                                   !.startAll = (target = ALL)]
    IN  IF commaPos > 0
        THEN [returned |-> chosen.startActuators \/ chosen.startStepper \/ chosen.startServo,
              out |-> chosen]
        ELSE [returned |-> TRUE,
              out |-> [out EXCEPT !.startAll = TRUE, !.startActuators = TRUE,
                                  !.startStepper = TRUE, !.startServo = TRUE]]

\* the debug branch of parseCommand, entered with the flags set so far
parseDebug(upperLine, out) ==
    LET plusPos == indexOf(upperLine, "+")
        afterPlus == substring(upperLine, plusPos + 1)
        commaPos == indexOf(afterPlus, ",")
        firstCommaPos == indexOf(upperLine, ",")
        targets == IF plusPos > 0
                   THEN (IF commaPos > 0
                         THEN substringTo(upperLine, 0, plusPos) \o <<"+">>
                              \o substringTo(afterPlus, 0, commaPos)
                         ELSE substringTo(upperLine, 0, plusPos))
                   ELSE substringTo(upperLine, 0, firstCommaPos)
        rest == IF plusPos > 0
                THEN (IF commaPos > 0 THEN substring(afterPlus, commaPos) ELSE afterPlus)
                ELSE substring(upperLine, firstCommaPos)
        flagged == [out EXCEPT !.isGroup1 = indexOfString(targets, GROUP1) >= 0,
                               !.isGroup2 = indexOfString(targets, GROUP2) >= 0,
                               !.isStepper = indexOfString(targets, STEPPER) >= 0,
                               !.isServo = indexOfString(targets, SERVO) >= 0,
                               !.isAll = indexOfString(targets, ALL) >= 0]
        comma1 == indexOf(rest, ",")
        dirPart == trim(substringTo(rest, 1, comma1))
        percentPart == trim(substring(rest, comma1 + 1))
        dir == IF Len(dirPart) > 0 THEN dirPart[1] ELSE "S"
        percent == constrain(IF Len(percentPart) > 0 THEN toInt(percentPart) ELSE 0, 0, 100)
        angleComma == indexOf(percentPart, ",")
        withDir == [flagged EXCEPT !.debugDirection = dir, !.debugPercent = percent]
    IN  IF plusPos <= 0 /\ firstCommaPos <= 0 THEN [ok |-> FALSE, cmd |-> out]
        ELSE IF ~(flagged.isGroup1 \/ flagged.isGroup2 \/ flagged.isStepper
                  \/ flagged.isServo \/ flagged.isAll)
        THEN [ok |-> FALSE, cmd |-> flagged]
        ELSE IF comma1 < 0 THEN [ok |-> FALSE, cmd |-> flagged]
        ELSE IF flagged.isServo /\ angleComma > 0
        THEN [ok |-> TRUE,
              cmd |-> [withDir EXCEPT
                          !.servoTargetAngle = toInt(substringTo(percentPart, 0, angleComma)),
                          !.debugPercent =
                              constrain(toInt(substring(percentPart, angleComma + 1)), 0, 100)]]
        ELSE [ok |-> TRUE, cmd |-> [withDir EXCEPT !.servoTargetAngle = 180]]

\* parseCommand of the controller: whether it returned true, and the command
parseCommandController(str) ==
    LET line == trim(str)
        upperLine == toUpperCase(line)
        started == IF startsWith(upperLine, START) THEN parseStart(upperLine)
                   ELSE [returned |-> FALSE, out |-> NoCommand]
        firstComma == indexOf(line, ",")
        firstPart == toUpperCase(trim(substringTo(line, 0, firstComma)))
        percent == constrain(toInt(trim(substring(line, firstComma + 1))), 0, 100)
    IN  IF Len(line) = 1 /\ line[1] \in {"s", "S"}
        THEN [ok |-> TRUE, cmd |-> [NoCommand EXCEPT !.isStop = TRUE]]
        ELSE IF started.returned THEN [ok |-> TRUE, cmd |-> started.out]
        ELSE IF firstComma > 0 /\ firstComma < 3 /\ firstPart \in {<<"F">>, <<"B">>}
        THEN [ok |-> TRUE,
              cmd |-> [started.out EXCEPT !.isMainMode = TRUE,
                                          !.mainDirection = firstPart[1],
                                          !.mainPercent = percent]]
        ELSE parseDebug(upperLine, started.out)


\* history: what became of a line handed to parseCommand: the branch taken,
\* the time applyCommand read, the time of the last accepted command before
\* it, whether handling it changed the state or wrote a pin, and how many
\* characters were received on the line
handle(before, m0, line, outcome, t) ==
    once(LAMBDA m :
             [m EXCEPT !.handled =
                           Append(@, [line |-> line, outcome |-> outcome, at |-> t,
                                      prior |-> before.lastAccepted,
                                      received |-> before.lineLength,
                                      wrote |-> m.pinWrites # before.pinWrites,
                                      changed |-> \/ m.systemState # before.systemState
                                                  \/ m.stepperRunning # before.stepperRunning
                                                  \/ m.pinWrites # before.pinWrites]),
                       !.lastAccepted =
                           IF outcome \in {"start", "main", "debug"}
                           THEN [at |-> t, stopped |-> FALSE]
                           ELSE IF outcome = "stop" THEN [@ EXCEPT !.stopped = TRUE]
                           ELSE @],
         m0)

\* the control gap test without the clock
cooldownBlocksAlways(ss, cmd, t) ==
    ss.inCooldown /\ ~cmd.isStop /\ ~cmd.isStart

\* systemState.inCooldown && !cmd.isStop && !cmd.isStart, and
\* now - systemState.lastCommandTime < 30000
cooldownBlocks(ss, cmd, t) ==
    /\ ss.inCooldown /\ ~cmd.isStop /\ ~cmd.isStart
    /\ ulongLess(t - ss.lastCommandTime, 30000)

\* the start of applyCommand: a command other than stop and START that is
\* not ignored ends the control gap
gapCleared(m, cmd) ==
    IF m.systemState.inCooldown /\ ~cmd.isStop /\ ~cmd.isStart
    THEN [m EXCEPT !.systemState.inCooldown = FALSE]
    ELSE m

applyCommandController(m0, line, cmd) ==
    once(LAMBDA m :
             IF cooldownBlocks(m.systemState, cmd, m.millis)
             THEN handle(m, m, line, "ignored", m.millis)
             ELSE IF cmd.isStop
             THEN handle(m, [stopAllMotion(gapCleared(m, cmd))
                                 EXCEPT !.systemState.mainState = "IDLE",
                                        !.systemState.initState = "INIT_IDLE",
                                        !.systemState.inCooldown = FALSE],
                         line, "stop", m.millis)
             ELSE IF cmd.isStart
             THEN handle(m, [resetToInitialState(gapCleared(m, cmd),
                                                 cmd.startActuators \/ cmd.startAll,
                                                 cmd.startStepper \/ cmd.startAll,
                                                 cmd.startServo \/ cmd.startAll)
                                 EXCEPT !.systemState.lastCommandTime = m.millis,
                                        !.systemState.inCooldown = TRUE],
                         line, "start", m.millis)
             ELSE IF cmd.isMainMode
             THEN (IF m.systemState.mainState # "IDLE"
                   THEN handle(m, gapCleared(m, cmd), line, "busy", m.millis)
                   ELSE handle(m, [startMainMotion(gapCleared(m, cmd), cmd.mainPercent,
                                                   cmd.mainDirection)
                                       EXCEPT !.systemState.lastCommandTime = m.millis,
                                              !.systemState.inCooldown = TRUE,
                                              !.lastMain = [direction |-> cmd.mainDirection,
                                                            percent |-> cmd.mainPercent,
                                                            at |-> m.millis,
                                                            resetDirection |-> NUL,
                                                            resetPercent |-> 0]],
                               line, "main", m.millis))
             ELSE handle(m, [executeDebugCommand(gapCleared(m, cmd), cmd)
                                 EXCEPT !.systemState.lastCommandTime = m.millis,
                                        !.systemState.inCooldown = TRUE],
                         line, "debug", m.millis),
         m0)

\* a finished line: parseCommand, then applyCommand or the invalid-command
\* message
handleLineController(m0, line0) ==
    once(LAMBDA m :
             once(LAMBDA line :
                      once(LAMBDA p :
                               IF p.ok THEN applyCommandController(m, line, p.cmd)
                               ELSE handle(m, m, line, "invalid", m.millis),
                           parseCommandController(line)),
                  line0),
         m0)

\* the body of the while (Serial.available()) loop for one character
readByteController(m0, incoming) ==
    once(LAMBDA m :
             IF incoming \in {"\n", "\r"}
             THEN IF m.cmdIndex = 0 THEN [m EXCEPT !.lineLength = 0]
                  ELSE [handleLineController([m EXCEPT !.cmdIndex = 0, !.cmdBuffer = <<>>],
                                             SubSeq(m.cmdBuffer, 1, m.cmdIndex))
                            EXCEPT !.lineLength = 0]
             ELSE IF m.cmdIndex < CMD_BUFFER_SIZE - 1
             THEN [m EXCEPT !.cmdBuffer = Append(@, incoming), !.cmdIndex = @ + 1,
                            !.lineLength = @ + 1]
             ELSE [m EXCEPT !.cmdIndex = 0, !.cmdBuffer = <<>>, !.lineLength = @ + 1],
         m0)

\* while (Serial.available()) { char incoming = Serial.read(); ... }
\* the characters of the receive buffer, read one after the other: those of
\* the first half, then those of the second
RECURSIVE readBytesController(_, _)
readBytesController(m0, bytes) ==
    once(LAMBDA m :
             IF bytes = <<>> THEN m
             ELSE IF Len(bytes) = 1 THEN readByteController(m, bytes[1])
             ELSE readBytesController(
                      readBytesController(m, SubSeq(bytes, 1, Len(bytes) \div 2)),
                      SubSeq(bytes, Len(bytes) \div 2 + 1, Len(bytes))),
         m0)

\* while (Serial.available()) { char incoming = Serial.read(); ... }
readSerialController(m0) ==
    once(LAMBDA m : readBytesController([m EXCEPT !.serial = <<>>], m.serial), m0)

\* the end of loop(): the control gap ends 30 s after the last command
updateCooldown(m0) ==
    once(LAMBDA m :
             IF m.systemState.inCooldown
                /\ ~ulongLess(m.millis - m.systemState.lastCommandTime, 30000)
             THEN [m EXCEPT !.systemState.inCooldown = FALSE]
             ELSE m,
         m0)

\* one pass of loop()
loopController(m) ==
    updateCooldown(updateStepperPosition(updateInitStateMachine(
        updateMainStateMachine(readSerialController(m)))))

StoppedMotion ==
    [isRunning |-> FALSE, startTime |-> 0, duration |-> 0, direction |-> NUL, percent |-> 0]

\* systemState after setup(): a global, zero where setup() sets nothing
InitialSystemState ==
    [group1 |-> StoppedMotion, group2 |-> StoppedMotion,
     stepper |-> StoppedMotion, servo |-> StoppedMotion,
     lastCommandTime |-> 0, inCooldown |-> FALSE, mainState |-> "IDLE",
     stateStartTime |-> 0, lastPercent |-> 0,
     initState |-> "INIT_IDLE", initStartTime |-> 0,
     initActuators |-> FALSE, initStepper |-> FALSE, initServo |-> FALSE]

\* the controller as setup() leaves it: every pin LOW or 0, the stepper
\* driver enabled (ENA low), the servo at 0 degrees
ControllerSetup ==
    /\ systemState = InitialSystemState
    /\ stepperRunning = FALSE
    /\ pins = [p \in ControllerPins |-> 0]
    /\ pinWrites = <<>>
    /\ cmdBuffer = <<>>
    /\ cmdIndex = 0
    /\ handled = <<>>
    /\ lastMain = [direction |-> NUL, percent |-> 0, at |-> 0,
                   resetDirection |-> NUL, resetPercent |-> 0]
    /\ lastAccepted = [at |-> 0, stopped |-> TRUE]
    /\ lineLength = 0


---------------------------------------------------------------------------
(* The basic BTS7960 sketch: every actuator has its own pair of PWM outputs *)
(* and both enables stay HIGH.  The sketch's pin tables are not part of the  *)
(* source file: an output is named by its table and its index from 0.        *)
(* cmdBuffer, cmdIndex and stepperRunning are the globals of the same names; *)
(* systemState holds stepperStepLevel.                                        *)

DEFAULT_SPEED == 200

RPWM(idx) == <<"RPWM_PINS", idx>>
LPWM(idx) == <<"LPWM_PINS", idx>>
R_EN(idx) == <<"R_EN_PINS", idx>>
L_EN(idx) == <<"L_EN_PINS", idx>>
STEP == <<"STEPPER_STEP_PIN", 0>>
DIR == <<"STEPPER_DIR_PIN", 0>>
ENA == <<"STEPPER_ENA_PIN", 0>>

BasicPins ==
    ({"RPWM_PINS", "LPWM_PINS", "R_EN_PINS", "L_EN_PINS"} \X (0..(NUM_ACTUATORS - 1)))
    \cup {STEP, DIR, ENA}

\* moveForward, moveBackward and stopMotor: the pin writes each makes, in order
moveForward(idx, speed) ==
    <<<<R_EN(idx), HIGH>>, <<L_EN(idx), HIGH>>, <<RPWM(idx), speed>>, <<LPWM(idx), 0>>>>

moveBackward(idx, speed) ==
    <<<<R_EN(idx), HIGH>>, <<L_EN(idx), HIGH>>, <<RPWM(idx), 0>>, <<LPWM(idx), speed>>>>

stopMotor(idx) ==
    <<<<R_EN(idx), HIGH>>, <<L_EN(idx), HIGH>>, <<RPWM(idx), 0>>, <<LPWM(idx), 0>>>>

\* for (uint8_t i = first; i < NUM_ACTUATORS; i++) { drive(i); }: its writes
forActuators(first, drive(_)) ==
    [k \in 1..(4 * (NUM_ACTUATORS - first)) |->
        drive(first + (k - 1) \div 4)[((k - 1) % 4) + 1]]

stopAll == forActuators(0, stopMotor)

stopStepperBasic(m) ==
    [writePin(m, STEP, LOW) EXCEPT !.stepperRunning = FALSE,
                                   !.systemState.stepperStepLevel = LOW]

startStepperBasic(m, left) ==
    [writePin(m, DIR, IF left THEN LOW ELSE HIGH)
         EXCEPT !.stepperRunning = TRUE, !.systemState.stepperStepLevel = LOW]

\* bool parseCommand(const String &line, ParsedCommand &out); the fields of
\* out that a branch does not set are not read after it
parseCommandBasic(line) ==
    LET none == [isHighLevel |-> FALSE, isBroadcast |-> FALSE, targetIndex |-> 0,
                 direction |-> "S", speed |-> 0, rawHighLevel |-> "S"]
        c == toUpperChar(line[1])
        firstComma == indexOf(line, ",")
        target == trim(substringTo(line, 0, firstComma))
        rest == substring(line, firstComma + 1)
        secondComma == indexOf(rest, ",")
        dirPart == trim(IF secondComma = -1 THEN rest ELSE substringTo(rest, 0, secondComma))
        speedPart == trim(IF secondComma = -1 THEN <<>> ELSE substring(rest, secondComma + 1))
        dir == IF dirPart # <<>> THEN toUpperChar(dirPart[1]) ELSE "S"
        spd == constrain(IF speedPart # <<>> THEN toInt(speedPart) ELSE DEFAULT_SPEED, 0, 255)
        idx == toInt(target) - 1
        low == [none EXCEPT !.direction = dir, !.speed = spd]
    IN  IF Len(line) = 1 /\ c \in {"A", "B", "S"}
        THEN [ok |-> TRUE, cmd |-> [none EXCEPT !.isHighLevel = TRUE, !.rawHighLevel = c]]
        ELSE IF firstComma = -1 THEN [ok |-> FALSE, cmd |-> none]
        ELSE IF dir \notin {"F", "B", "S"} THEN [ok |-> FALSE, cmd |-> none]
        ELSE IF toUpperCase(target) = ALL
        THEN [ok |-> TRUE, cmd |-> [low EXCEPT !.isBroadcast = TRUE, !.targetIndex = -1]]
        ELSE IF idx < 0 \/ idx >= NUM_ACTUATORS THEN [ok |-> FALSE, cmd |-> none]
        ELSE [ok |-> TRUE, cmd |-> [low EXCEPT !.targetIndex = idx]]

applyHighLevel(m, c) ==
    CASE c = "A" ->
             startStepperBasic(
                 writePins(m, moveForward(0, 200) \o moveForward(1, 200)
                              \o moveBackward(2, 100) \o moveBackward(3, 100)
                              \o moveBackward(4, 100) \o moveBackward(5, 100)
                              \o forActuators(6, stopMotor)),
                 TRUE)
      [] c = "B" ->
             startStepperBasic(
                 writePins(m, moveBackward(0, 200) \o moveBackward(1, 200)
                              \o moveForward(2, 100) \o moveForward(3, 100)
                              \o moveForward(4, 100) \o moveForward(5, 100)
                              \o forActuators(6, stopMotor)),
                 FALSE)
      [] OTHER -> stopStepperBasic(writePins(m, stopAll))

\* the lambda driveOne of applyCommand: its writes
driveOne(cmd, idx) ==
    CASE cmd.direction = "F" -> moveForward(idx, cmd.speed)
      [] cmd.direction = "B" -> moveBackward(idx, cmd.speed)
      [] OTHER -> stopMotor(idx)

applyCommandBasic(m, cmd0) ==
    once(LAMBDA cmd :
             IF cmd.isHighLevel THEN applyHighLevel(m, cmd.rawHighLevel)
             ELSE IF cmd.isBroadcast
             THEN writePins(m, forActuators(0, LAMBDA i : driveOne(cmd, i)))
             ELSE writePins(m, driveOne(cmd, cmd.targetIndex)),
         cmd0)

\* history: a line handed to parseCommand, what it was taken for, and how
\* many characters were received on the line
handleBasic(m, line, outcome) ==
    [m EXCEPT !.handled = Append(@, [line |-> line, outcome |-> outcome,
                                     received |-> m.lineLength])]

\* a finished line: parseCommand, then applyCommand or the invalid-command
\* message
handleLineBasic(m0, line0) ==
    once(LAMBDA m :
             once(LAMBDA line :
                      once(LAMBDA p :
                               IF p.ok
                               THEN applyCommandBasic(
                                        handleBasic(m, line, IF p.cmd.isHighLevel THEN "high"
                                                             ELSE "low"),
                                        p.cmd)
                               ELSE handleBasic(m, line, "invalid"),
                           parseCommandBasic(line)),
                  line0),
         m0)

\* the body of the while (Serial.available()) loop for one character
readByteBasic(m0, incoming) ==
    once(LAMBDA m :
             IF incoming \in {"\n", "\r"}
             THEN IF m.cmdIndex = 0 THEN [m EXCEPT !.lineLength = 0]
                  ELSE [handleLineBasic([m EXCEPT !.cmdIndex = 0, !.cmdBuffer = <<>>],
                                        SubSeq(m.cmdBuffer, 1, m.cmdIndex))
                            EXCEPT !.lineLength = 0]
             ELSE IF m.cmdIndex < CMD_BUFFER_SIZE - 1
             THEN [m EXCEPT !.cmdBuffer = Append(@, incoming), !.cmdIndex = @ + 1,
                            !.lineLength = @ + 1]
             ELSE [m EXCEPT !.cmdIndex = 0, !.cmdBuffer = <<>>, !.lineLength = @ + 1],
         m0)

\* the characters of the receive buffer, read one after the other: those of
\* the first half, then those of the second
RECURSIVE readBytesBasic(_, _)
readBytesBasic(m0, bytes) ==
    once(LAMBDA m :
             IF bytes = <<>> THEN m
             ELSE IF Len(bytes) = 1 THEN readByteBasic(m, bytes[1])
             ELSE readBytesBasic(readBytesBasic(m, SubSeq(bytes, 1, Len(bytes) \div 2)),
                              SubSeq(bytes, Len(bytes) \div 2 + 1, Len(bytes))),
         m0)

\* while (Serial.available()) { char incoming = Serial.read(); ... }
readSerialBasic(m0) ==
    once(LAMBDA m : readBytesBasic([m EXCEPT !.serial = <<>>], m.serial), m0)

\* one pass of loop(); due: STEPPER_PULSE_INTERVAL_US have passed since the
\* STEP output last changed
loopBasic(m, due) ==
    once(LAMBDA a :
             IF a.stepperRunning /\ due
             THEN [writePin(a, STEP, IF a.systemState.stepperStepLevel = LOW THEN HIGH
                                     ELSE LOW)
                       EXCEPT !.systemState.stepperStepLevel = IF @ = LOW THEN HIGH ELSE LOW]
             ELSE a,
         readSerialBasic(m))

\* the basic sketch as setup() leaves it: every actuator stopped with its
\* enables HIGH, the stepper driver enabled (ENA low) and not stepping
BasicSetup ==
    /\ systemState = [stepperStepLevel |-> LOW]
    /\ stepperRunning = FALSE
    /\ pins = [p \in BasicPins |->
                  IF p[1] \in {"R_EN_PINS", "L_EN_PINS"} THEN HIGH ELSE LOW]
    /\ pinWrites = <<>>
    /\ cmdBuffer = <<>>
    /\ cmdIndex = 0
    /\ handled = <<>>
    /\ lineLength = 0

---------------------------------------------------------------------------
(* The program: setup(), then loop() in two steps *)

\* no function is called on its own in a run of setup() and loop()
NoCall == [fn |-> "none", args |-> <<>>, result |-> 0, done |-> TRUE]

InitialTidal ==
    [controlValue |-> 50000, lastUpdateTime |-> SETUP_DELAY, globalTime |-> 0,
     particles |-> <<>>, lastParticleSpawnTime |-> 0,
     flashIntensity |-> 0, flashStartTime |-> 0, lastFlashCheckTime |-> 0]

InitialState ==
    [targetControlValue |-> 100000, currentControlValue |-> 100000,
     transitionStartTime |-> 0, transitionStartValue |-> 100000,
     isTransitioning |-> FALSE,
     waves |-> [i \in 1..MAX_WAVES |-> InactiveWave],
     waveCount |-> 0, lastWaveSpawnTime |-> 0,
     isPaused |-> FALSE, lastUpdateTime |-> SETUP_DELAY,
     eventIntensity |-> 0, eventPhase |-> 0, lastEventTime |-> 0,
     globalTime |-> 0]

Init ==
    /\ now = SETUP_DELAY
    /\ pc = "serial"
    /\ state = InitialState
    /\ tidal = <<InitialTidal, InitialTidal>>
    /\ everyNPrev = -1
    /\ reply = "NONE"
    /\ serialLine = NoLine
    /\ cmdCount = 0
    /\ frameCount = 0
    /\ pendingF = -1
    /\ afterQuit = FALSE
    /\ lastTrigger = -1
    /\ call = NoCall
    /\ ControllerSetup
    /\ build = "folded"

\* Step 1 of loop() with a line available on Serial.
SerialLine(line, maxCmds) ==
    /\ pc = "serial"
    /\ cmdCount < maxCmds
    /\ LET r == parseCommand(line, state, tidal, now)
       IN  /\ state' = r.state
           /\ tidal' = r.tidal
           /\ reply' = r.reply
           /\ pendingF' = IF r.reply = "OK_SET"
                          THEN (IF r.state.targetControlValue # NaN
                                   /\ r.state.targetControlValue > 0
                                THEN r.state.targetControlValue ELSE -1)
                          ELSE IF r.reply = "OK_QUIT" THEN -1 ELSE pendingF
           /\ afterQuit' = IF r.reply = "OK_QUIT" THEN TRUE
                           ELSE IF r.reply = "OK_SET" THEN FALSE ELSE afterQuit
    /\ serialLine' = line
    /\ cmdCount' = cmdCount + 1
    /\ pc' = "frame"
    /\ UNCHANGED <<now, everyNPrev, frameCount, lastTrigger, call, motorVars>>

\* Step 1 of loop() with nothing available on Serial.
NoSerial ==
    /\ pc = "serial"
    /\ pc' = "frame"
    /\ UNCHANGED <<now, state, tidal, everyNPrev, reply, serialLine, cmdCount,
                   frameCount, pendingF, afterQuit, lastTrigger, call, motorVars>>


\* Frame in which a pause also stops the tidal bridge strips.
FramePauseStopsBridge(dt, j, r, maxFrames) ==
    /\ pc = "frame"
    /\ frameCount < maxFrames
    /\ LET t1 == now + dt - j
           t2 == now + dt
           ready == everyNReady(everyNPrev, t1)
           a == IF ready THEN updateBrightnessTransition(state, t1) ELSE state
           b == updateVirtualPosition(a, t1)
           c == eventStep(b, t2, r.event)
       IN  /\ state' = c
           /\ lastTrigger' = IF b.eventIntensity = 0 /\ c.eventIntensity > 0
                              THEN t2 ELSE lastTrigger
           /\ everyNPrev' = IF everyNPrev < 0 \/ ready THEN t1 ELSE everyNPrev
           /\ tidal' = IF state.isPaused THEN tidal
                       ELSE [i \in 1..2 |->
                               tidalStep(tidal[i], TidalLEDs[i], t2, frameCount + 1,
                                         r.energy[i], r.hue[i], r.flash[i])]
           /\ now' = t2
    /\ frameCount' = frameCount + 1
    /\ pc' = "serial"
    /\ serialLine' = NoLine
    /\ pendingF' = IF state.isPaused THEN pendingF ELSE -1
    /\ UNCHANGED <<reply, cmdCount, afterQuit, call, motorVars>>

\* Steps 2 to 6 of loop(): dt ms after the previous pass, j of them after
\* updateVirtualPosition's clock read; r the outcomes of random in this pass.
Frame(dt, j, r, maxFrames) ==
    /\ pc = "frame"
    /\ frameCount < maxFrames
    /\ LET t1 == now + dt - j
           t2 == now + dt
           ready == everyNReady(everyNPrev, t1)
           a == IF ready THEN updateBrightnessTransition(state, t1) ELSE state
           b == updateVirtualPosition(a, t1)
           c == eventStep(b, t2, r.event)
       IN  /\ state' = c
           /\ lastTrigger' = IF b.eventIntensity = 0 /\ c.eventIntensity > 0
                              THEN t2 ELSE lastTrigger
           /\ everyNPrev' = IF everyNPrev < 0 \/ ready THEN t1 ELSE everyNPrev
           /\ tidal' = [i \in 1..2 |->
                           tidalStep(tidal[i], TidalLEDs[i], t2, frameCount + 1,
                                     r.energy[i], r.hue[i], r.flash[i])]
           /\ now' = t2
    /\ frameCount' = frameCount + 1
    /\ pc' = "serial"
    /\ serialLine' = NoLine
    /\ pendingF' = IF state.isPaused THEN pendingF ELSE -1
    /\ UNCHANGED <<reply, cmdCount, afterQuit, call, motorVars>>

RandomOutcomes(D) ==
    [event : D, energy : [1..2 -> D], hue : [1..2 -> D], flash : [1..2 -> D]]

Next ==
    \/ NoSerial
    \/ \E line \in CommandLines : SerialLine(line, MaxCmds)
    \/ \E dt \in Deltas, j \in Jitters, r \in RandomOutcomes(Draws) :
           Frame(dt, j, r, MaxFrames)

Spec == Init /\ [][Next]_vars

\* Runs long enough for a whole transition (16 s), with fewer inputs.
NextRamp ==
    \/ NoSerial
    \/ \E line \in CommandLinesRamp : SerialLine(line, MaxCmdsRamp)
    \/ \E dt \in DeltasRamp, j \in Jitters, r \in RandomOutcomes(Draws) :
           Frame(dt, j, r, MaxFramesRamp)

SpecRamp == Init /\ [][NextRamp]_vars

\* Runs long enough to fill the wave queue (100 s), with the fewest inputs.
NextLong ==
    \/ NoSerial
    \/ \E line \in CommandLinesLong : SerialLine(line, MaxCmdsLong)
    \/ \E dt \in DeltasLong, j \in Jitters, r \in RandomOutcomes(Draws) :
           Frame(dt, j, r, MaxFramesLong)

SpecLong == Init /\ [][NextLong]_vars

\* Passes of 0.1 s with the two values 10 and 90.
NextOvertake ==
    \/ NoSerial
    \/ \E line \in CommandLinesOvertake : SerialLine(line, MaxCmdsOvertake)
    \/ \E dt \in DeltasOvertake, j \in Jitters, r \in RandomOutcomes(Draws) :
           Frame(dt, j, r, MaxFramesOvertake)

SpecOvertake == Init /\ [][NextOvertake]_vars

\* updateFlashEffect on its own: the strips start with a controlValue for
\* which mapControlValue exceeds the trigger threshold 85 (150 maps to 91),
\* a value above the range parseCommand admits, or with the largest value it
\* admits; no serial input, and both outcomes of the trigger's random draw.
FlashControlValues == {100000, 150000}

DrawsFlash == {0, 5000}

FlashOutcomes ==
    [event : Draws, energy : [1..2 -> Draws], hue : [1..2 -> Draws],
     flash : [1..2 -> DrawsFlash]]

InitFlash ==
    /\ now = SETUP_DELAY
    /\ pc = "serial"
    /\ state = InitialState
    /\ \E n \in FlashControlValues :
           tidal = <<[InitialTidal EXCEPT !.controlValue = n],
                     [InitialTidal EXCEPT !.controlValue = n]>>
    /\ everyNPrev = -1
    /\ reply = "NONE"
    /\ serialLine = NoLine
    /\ cmdCount = 0
    /\ frameCount = 0
    /\ pendingF = -1
    /\ afterQuit = FALSE
    /\ lastTrigger = -1
    /\ call = NoCall
    /\ ControllerSetup
    /\ build = "folded"

NextFlash ==
    \/ NoSerial
    \/ \E dt \in DeltasFlash, j \in Jitters, r \in FlashOutcomes :
           Frame(dt, j, r, MaxFramesFlash)

SpecFlash == InitFlash /\ [][NextFlash]_vars

\* The event layer: loop() reads millis() for the event layer's deltaTime
\* 1 ms after updateVirtualPosition read it, and the trigger's random draw has
\* both outcomes.
JittersEvent == {1}

DrawsEvent == {0, 5000}

EventOutcomes ==
    [event : DrawsEvent, energy : [1..2 -> Draws], hue : [1..2 -> Draws],
     flash : [1..2 -> Draws]]

CommandLinesEvent ==
    { <<"f", ",", "0">>, <<"f", ",", "1", "0", "0">>, <<"s">>, <<"q">> }

NextEvent ==
    \/ NoSerial
    \/ \E line \in CommandLinesEvent : SerialLine(line, MaxCmdsEvent)
    \/ \E dt \in DeltasEvent, j \in JittersEvent, r \in EventOutcomes :
           Frame(dt, j, r, MaxFramesEvent)

SpecEvent == Init /\ [][NextEvent]_vars


---------------------------------------------------------------------------
(* The multi-component controller: setup(), then passes of loop() *)

MaxPassesController == 5
MaxLinesController == 2

\* the time one pass of loop() and the wait for the next take: half a second,
\* or ten seconds in which nothing arrives
DeltasController == {500, 10000}

\* a line of 40 characters followed by s: longer than the command buffer
LongLine == [i \in 1..CMD_BUFFER_SIZE |-> "x"] \o <<"s">>

\* what Serial holds at a pass of loop(): nothing, or one line with its newline
ControllerBytes ==
    { <<>>,
      <<"f", ",", "2", "\n">>,
      <<"b", ",", " ", "5", "0", "\r", "\n">>,
      <<"s", "\n">>,
      <<"S", "T", "A", "R", "T", "\n">>,
      <<"G", "R", "O", "U", "P", "1", ",", "B", ",", "2", "0", "\n">>,
      LongLine \o <<"\n">> }

InitController ==
    /\ now = 0
    /\ pc = "serial"
    /\ state = InitialState
    /\ tidal = <<InitialTidal, InitialTidal>>
    /\ everyNPrev = -1
    /\ reply = "NONE"
    /\ serialLine = NoLine
    /\ cmdCount = 0
    /\ frameCount = 0
    /\ pendingF = -1
    /\ afterQuit = FALSE
    /\ lastTrigger = -1
    /\ call = NoCall
    /\ ControllerSetup
    /\ build \in Builds

\* One pass of loop() of the controller, and the time until the next.
ControllerLoop(bytes, dt, maxPasses, maxLines) ==
    /\ frameCount < maxPasses
    /\ bytes # <<>> => cmdCount < maxLines
    /\ \E m \in {loopController(
                    [systemState |-> systemState, stepperRunning |-> stepperRunning,
                     pins |-> pins, pinWrites |-> <<>>, millis |-> now, build |-> build,
                     cmdBuffer |-> cmdBuffer, cmdIndex |-> cmdIndex,
                     handled |-> <<>>, lastMain |-> lastMain, lastAccepted |-> lastAccepted,
                     lineLength |-> lineLength, serial |-> bytes])} :
           /\ systemState' = m.systemState
           /\ stepperRunning' = m.stepperRunning
           /\ pins' = m.pins
           /\ pinWrites' = m.pinWrites
           /\ cmdBuffer' = m.cmdBuffer
           /\ cmdIndex' = m.cmdIndex
           /\ handled' = m.handled
           /\ lastMain' = m.lastMain
           /\ lastAccepted' = m.lastAccepted
           /\ lineLength' = m.lineLength
           /\ now' = m.millis + dt
           /\ cmdCount' = cmdCount + Len(m.handled)
    /\ frameCount' = frameCount + 1
    /\ UNCHANGED <<ledVars, call, build>>

NextController ==
    \E bytes \in ControllerBytes, dt \in DeltasController :
        ControllerLoop(bytes, dt, MaxPassesController, MaxLinesController)

SpecController == InitController /\ [][NextController]_vars


\* The control gap: a line or nothing every ten seconds, so that a command
\* arrives 10, 20 and 30 s after the one that was accepted.
MaxPassesCooldown == 5
MaxLinesCooldown == 4

DeltasCooldown == {10000}

CooldownBytes ==
    { <<>>,
      <<"f", ",", "2", "\n">>,
      <<"s", "\n">>,
      <<"S", "T", "A", "R", "T", "\n">>,
      <<"G", "R", "O", "U", "P", "1", ",", "B", ",", "2", "0", "\n">> }

NextCooldown ==
    \E bytes \in CooldownBytes, dt \in DeltasCooldown :
        ControllerLoop(bytes, dt, MaxPassesCooldown, MaxLinesCooldown)

SpecCooldown == InitController /\ [][NextCooldown]_vars


---------------------------------------------------------------------------
(* The basic BTS7960 sketch: setup(), then passes of loop() *)

MaxPassesBasic == 3
MaxLinesBasic == 3

\* what Serial holds at a pass of loop(): nothing, or one line with its newline
BasicBytes ==
    { <<>>,
      <<"A", "\n">>,
      <<"b", "\n">>,
      <<"S", "\r", "\n">>,
      <<"3", ",", "B", ",", "1", "0", "0", "\n">>,
      <<"3", ",", "F", "\n">>,
      <<"A", "L", "L", ",", "b", ",", " ", "5", "0", "\n">>,
      <<"1", "5", ",", "F", "\n">> }

InitBasic ==
    /\ now = 0
    /\ pc = "serial"
    /\ state = InitialState
    /\ tidal = <<InitialTidal, InitialTidal>>
    /\ everyNPrev = -1
    /\ reply = "NONE"
    /\ serialLine = NoLine
    /\ cmdCount = 0
    /\ frameCount = 0
    /\ pendingF = -1
    /\ afterQuit = FALSE
    /\ lastTrigger = -1
    /\ call = NoCall
    /\ BasicSetup
    /\ lastMain = [direction |-> NUL, percent |-> 0, at |-> 0,
                   resetDirection |-> NUL, resetPercent |-> 0]
    /\ lastAccepted = [at |-> 0, stopped |-> TRUE]
    /\ build = "folded"

\* One pass of loop() of the basic sketch.
BasicLoop(bytes, due) ==
    /\ frameCount < MaxPassesBasic
    /\ bytes # <<>> => cmdCount < MaxLinesBasic
    /\ \E m \in {loopBasic(
                    [systemState |-> systemState, stepperRunning |-> stepperRunning,
                     pins |-> pins, pinWrites |-> <<>>, cmdBuffer |-> cmdBuffer,
                     cmdIndex |-> cmdIndex, handled |-> <<>>, lineLength |-> lineLength,
                     serial |-> bytes],
                    due)} :
           /\ systemState' = m.systemState
           /\ stepperRunning' = m.stepperRunning
           /\ pins' = m.pins
           /\ pinWrites' = m.pinWrites
           /\ cmdBuffer' = m.cmdBuffer
           /\ cmdIndex' = m.cmdIndex
           /\ handled' = m.handled
           /\ lineLength' = m.lineLength
           /\ cmdCount' = cmdCount + Len(m.handled)
    /\ frameCount' = frameCount + 1
    /\ UNCHANGED <<ledVars, now, call, lastMain, lastAccepted, build>>

NextBasic == \E bytes \in BasicBytes, due \in BOOLEAN : BasicLoop(bytes, due)

SpecBasic == InitBasic /\ [][NextBasic]_vars

---------------------------------------------------------------------------
(* The sketch's functions called on their own: the arguments are drawn in the  *)
(* initial state and one step applies the function.                            *)

Call(fn, args) == [fn |-> fn, args |-> args, result |-> 0, done |-> FALSE]

\* positions from 0 to beyond one period, and two periods
CyclicPositions ==
    {0, 1000000, 5250000, 10500000, 20000000, 21000000, 30000000, 45000000}

CyclicPeriods == {10000000, PHASE_PERIOD}

\* virtual positions of the two end groups, unstretched and fully stretched
\* (0 and 21 - 0.0001), and 21 = 0 + PERIOD; wave phases; the nValue of a wave
WavePositions ==
    {1000000, calculateStretchedPos(1000000, 100000),
     20000000, calculateStretchedPos(20000000, 100000), PHASE_PERIOD}

WavePhases == {0, 100000, 1000000, 20000000, 20900000}

WaveNValues == {0, 50000, 100000, NaN}

\* control values from 0 to 100 in steps of 0.5
ControlValues == {500 * k : k \in 0..200}

\* every percent parseCommand of the controller can hand on
Percents == 0..100

\* a ControlState of the earlier sketches SETUP_DELAY ms after its last update:
\* the position on the ring, the control value (target and current alike)
RingStates ==
    {[targetControlValue |-> n, currentControlValue |-> n, globalVirtualPos |-> p,
      isPaused |-> paused, lastUpdateTime |-> SETUP_DELAY] :
         n \in {0, 50000, 100000},
         p \in {VIRTUAL_POS_MIN, 10000000, 19900000, VIRTUAL_POS_MAX},
         paused \in BOOLEAN}

\* millis() at the call: 10 ms, 16 ms, 0.5 s, 1 s and 2.5 s after the last update
RingTimes == {SETUP_DELAY + d : d \in {10, 16, 500, 1000, 2500}}

CallInputs ==
    {Call("getCyclicDistance", <<a, b, p>>) :
         a \in CyclicPositions, b \in CyclicPositions, p \in CyclicPeriods}
    \cup {Call("waveInterval", <<n>>) : n \in ControlValues}
    \cup {Call(fn, <<pos, phase, n>>) :
              fn \in {"calculateMainDarkWave", "calculateOvershoot"},
              pos \in WavePositions, phase \in WavePhases, n \in WaveNValues}
    \cup {Call("calculateDuration", <<percent>>) : percent \in Percents}
    \cup {Call(fn, <<st, t>>) :
              fn \in {"updateVirtualPositionNov20a", "updateVirtualPositionPart001"},
              st \in RingStates, t \in RingTimes}

InitCalls ==
    /\ now = SETUP_DELAY
    /\ pc = "serial"
    /\ state = InitialState
    /\ tidal = <<InitialTidal, InitialTidal>>
    /\ everyNPrev = -1
    /\ reply = "NONE"
    /\ serialLine = NoLine
    /\ cmdCount = 0
    /\ frameCount = 0
    /\ pendingF = -1
    /\ afterQuit = FALSE
    /\ lastTrigger = -1
    /\ call \in CallInputs
    /\ ControllerSetup
    /\ build = "folded"

Returns(fn, result) ==
    /\ call.fn = fn
    /\ ~call.done
    /\ call' = [call EXCEPT !.result = result, !.done = TRUE]
    /\ UNCHANGED <<now, pc, state, tidal, everyNPrev, reply, serialLine, cmdCount,
                   frameCount, pendingF, afterQuit, lastTrigger, motorVars>>

CallGetCyclicDistance ==
    Returns("getCyclicDistance",
            getCyclicDistance(call.args[1], call.args[2], call.args[3]))

\* a ControlState whose only active wave has the given phase and nValue
oneWave(phase, n) ==
    [InitialState EXCEPT !.waves[1] = [phase |-> phase, speed |-> waveSpeedOf(n),
                                       nValue |-> n, active |-> TRUE],
                         !.waveCount = 1]

CallCalculateMainDarkWave ==
    Returns("calculateMainDarkWave",
            calculateMainDarkWave(call.args[1], oneWave(call.args[2], call.args[3])))

CallCalculateOvershoot ==
    Returns("calculateOvershoot",
            calculateOvershoot(call.args[1], oneWave(call.args[2], call.args[3])))

\* the waveInterval computed in updateVirtualPosition and in parseCommand
CallWaveInterval == Returns("waveInterval", waveIntervalOf(call.args[1]))

\* calculateDuration, with each value its undefined overflow can give
CallCalculateDuration ==
    /\ call.fn = "calculateDuration"
    /\ \E d \in calculateDuration(call.args[1]) : Returns("calculateDuration", d)

CallUpdateVirtualPositionNov20a ==
    Returns("updateVirtualPositionNov20a",
            updateVirtualPositionNov20a(call.args[1], call.args[2]))

CallUpdateVirtualPositionPart001 ==
    Returns("updateVirtualPositionPart001",
            updateVirtualPositionPart001(call.args[1], call.args[2]))

NextCalls ==
    \/ CallGetCyclicDistance
    \/ CallWaveInterval
    \/ CallCalculateMainDarkWave
    \/ CallCalculateOvershoot
    \/ CallCalculateDuration
    \/ CallUpdateVirtualPositionNov20a
    \/ CallUpdateVirtualPositionPart001

SpecCalls == InitCalls /\ [][NextCalls]_vars

---------------------------------------------------------------------------
(* Properties *)

activeWaves(st) == {i \in 1..MAX_WAVES : st.waves[i].active}

\* C1: the number of active waves and waveCount never exceed MAX_WAVES, and
\* spawnWave on a queue whose MAX_WAVES slots are all active changes no wave
\* slot and leaves waveCount unchanged.
C1_WaveCapacity ==
    /\ state.waveCount <= MAX_WAVES
    /\ Cardinality(activeWaves(state)) <= state.waveCount
    /\ (activeWaves(state) = 1..MAX_WAVES => spawnWave(state) = state)

\* C1 witness: all MAX_WAVES slots are active after a frame.
C1_QueueFull ==
    /\ pc = "serial"
    /\ state.waveCount = MAX_WAVES
    /\ activeWaves(state) = 1..MAX_WAVES

liveIds(ts) == {ts.particles[k].id : k \in 1..Len(ts.particles)}

xOf(ts, id) ==
    LET k == CHOOSE k \in 1..Len(ts.particles) : ts.particles[k].id = id
    IN  ts.particles[k].x

\* float comparisons: false when an operand is NaN
feq(a, b) == a # NaN /\ b # NaN /\ a = b

flt(a, b) == a # NaN /\ b # NaN /\ a < b

between(x, a, b) ==
    \/ feq(x, a)
    \/ feq(x, b)
    \/ x # NaN /\ a # NaN /\ b # NaN /\ ((a <= x /\ x <= b) \/ (b <= x /\ x <= a))

\* C3: currentControlValue lies on the closed segment between
\* transitionStartValue and targetControlValue, and equals targetControlValue
\* whenever isTransitioning is false.
C3_CurrentOnSegment ==
    /\ between(state.currentControlValue, state.transitionStartValue,
               state.targetControlValue)
    /\ (~state.isTransitioning
            => feq(state.currentControlValue, state.targetControlValue))

\* A step of loop() that hands a line to parseCommand, and a step that runs a frame.
commandStep == pc = "serial" /\ pc' = "frame" /\ serialLine' # NoLine

frameStep == pc = "frame" /\ pc' = "serial"

normalized(line) == toLowerCase(trim(line))

\* the text after "f," of a line that starts with it
argumentOf(line) == SubSeq(normalized(line), 3, Len(normalized(line)))

isFLine(line) == line # NoLine /\ startsWith(normalized(line), <<"f", ",">>)

isQLine(line) == normalized(line) = <<"q">>

\* a decimal number: an optional sign, digits, an optional point and digits,
\* at least one digit, nothing else
isNumber(s) ==
    LET b == IF s # <<>> /\ Head(s) \in {"-", "+"} THEN Tail(s) ELSE s
        ip == digitPrefix(b)
        rest == SubSeq(b, Len(ip) + 1, Len(b))
        fp == IF rest # <<>> /\ Head(rest) = "." THEN digitPrefix(Tail(rest)) ELSE <<>>
        tail == IF rest # <<>> /\ Head(rest) = "."
                THEN SubSeq(rest, Len(fp) + 2, Len(rest)) ELSE rest
    IN  (ip # <<>> \/ fp # <<>>) /\ tail = <<>>

wellFormed(line) ==
    \/ normalized(line) \in {<<"s">>, <<"q">>}
    \/ isFLine(line) /\ isNumber(argumentOf(line))

\* C4: a transition update running elapsed ms after the f command that started
\* the ramp sets the current value to start + (target - start) * elapsed / 16000
\* (NaN when the start or the target is NaN) while elapsed < 16000, and from
\* 16000 ms on sets it to the target and clears isTransitioning.
C4_RampLinearThenSnap ==
    [][(frameStep /\ state.isTransitioning /\ everyNReady(everyNPrev, everyNPrev')
            /\ everyNPrev' # everyNPrev)
         => LET elapsed == everyNPrev' - state.transitionStartTime
            IN  IF elapsed >= TRANSITION_TIME_MS
                THEN /\ state'.currentControlValue = state.targetControlValue
                     /\ ~state'.isTransitioning
                ELSE /\ state'.isTransitioning
                     /\ state'.currentControlValue =
                            (IF NaN \in {state.transitionStartValue, state.targetControlValue}
                             THEN NaN
                             ELSE state.transitionStartValue
                                  + ((state.targetControlValue - state.transitionStartValue)
                                     * elapsed) \div TRANSITION_TIME_MS)]_vars

\* C4 witness: f,100 from 0 has reached 100 with the update 16 s after the command.
C4_RampDone ==
    /\ pc = "serial"
    /\ ~afterQuit
    /\ state.transitionStartTime > 0
    /\ state.transitionStartValue = 0
    /\ state.targetControlValue = 100000
    /\ state.currentControlValue = 100000
    /\ ~state.isTransitioning
    /\ now - state.transitionStartTime = TRANSITION_TIME_MS

\* C5: an f command leaves currentControlValue as it is and starts the new ramp
\* from it, whether or not a ramp is under way.
C5_NoJumpOnF ==
    [][(commandStep /\ isFLine(serialLine'))
         => /\ state'.currentControlValue = state.currentControlValue
            /\ state'.transitionStartValue = state.currentControlValue
            /\ state'.isTransitioning]_vars

\* C5 witness: an f command has just restarted a ramp that was under way, from
\* a value strictly between the old start and the old target.
C5_RestartMidRamp ==
    /\ pc = "frame"
    /\ isFLine(serialLine)
    /\ state.transitionStartTime = now
    /\ state.transitionStartValue = state.currentControlValue
    /\ state.currentControlValue \notin {0, 40000, 100000}
    /\ state.isTransitioning

\* C6: q sets target and current value to 0, clears isTransitioning and sets
\* both bridge control values to 0 in one step, whatever the state; from then
\* until the next f command the current value is 0 after every step.
C6_QuitZeroes ==
    [][/\ (commandStep /\ isQLine(serialLine'))
            => /\ state'.targetControlValue = 0
               /\ state'.currentControlValue = 0
               /\ ~state'.isTransitioning
               /\ \A i \in 1..2 : tidal'[i].controlValue = 0
       /\ afterQuit' => state'.currentControlValue = 0]_vars

\* C6 witness: q arrived while paused and less than 16 s after an f,40 given
\* from a positive value, and a frame has run since.
C6_QuitPausedMidRamp ==
    /\ pc = "serial"
    /\ afterQuit
    /\ frameCount > 0
    /\ serialLine = NoLine
    /\ state.isPaused
    /\ state.transitionStartTime > 0
    /\ state.transitionStartValue > 0
    /\ state.lastWaveSpawnTime = state.globalTime - waveIntervalOf(40000)
    /\ now - state.transitionStartTime < TRANSITION_TIME_MS
    /\ state.currentControlValue = 0

\* C7: after q, and until the next f command, no inactive wave slot becomes
\* active.
C7_NoSpawnAfterQuit ==
    [][(afterQuit /\ afterQuit')
         => \A i \in 1..MAX_WAVES : state'.waves[i].active => state.waves[i].active]_vars

\* C8: a non-empty line that is not a well-formed f,<number>, s or q is
\* reported as invalid and changes neither the control state nor the bridge
\* strips.
C8_MalformedRejected ==
    [][(commandStep /\ normalized(serialLine') # <<>> /\ ~wellFormed(serialLine'))
         => /\ reply' = "ERROR_UNKNOWN"
            /\ state' = state
            /\ tidal' = tidal]_vars

inRange(v) == 0 <= v /\ v <= 100000

\* C9: f,<n> sets the target to n clamped to [0, 100] and answers OK, and the
\* target, the current value and both bridge control values are within
\* [0, 100] after every step.
C9_TargetClamped ==
    [][/\ (commandStep /\ isFLine(serialLine') /\ isNumber(argumentOf(serialLine')))
            => LET n == toFloat(argumentOf(serialLine'))
               IN  /\ state'.targetControlValue =
                          (IF n < 0 THEN 0 ELSE IF n > 100000 THEN 100000 ELSE n)
                   /\ reply' = "OK_SET"
       /\ inRange(state'.targetControlValue)
       /\ inRange(state'.currentControlValue)
       /\ \A i \in 1..2 : inRange(tidal'[i].controlValue)]_vars

retires(i) ==
    /\ frameStep
    /\ state.waves[i].phase
         + state.waves[i].speed * (state'.globalTime - state.globalTime) >= PHASE_PERIOD

C12_WaveFieldsFrozen ==
    [][\A i \in 1..MAX_WAVES :
          (state.waves[i].active /\ state'.waves[i].active)
              => /\ state'.waves[i].speed = state.waves[i].speed
                 /\ state'.waves[i].nValue = state.waves[i].nValue
                 /\ state'.waves[i].phase >= state.waves[i].phase]_vars

\* C12 witness: a wave spawned under 100 still runs at the speed of 100, and
\* has advanced, after the target and the current value were set to 0.
C12_WaveOutlivesValue ==
    \E i \in 1..MAX_WAVES :
        /\ state.waves[i].active
        /\ state.waves[i].nValue = 100000
        /\ state.waves[i].speed = waveSpeedOf(100000)
        /\ state.targetControlValue = 0
        /\ state.currentControlValue = 0
        /\ state.waves[i].phase > state.waves[i].speed * 1000

\* some wave spawned under 90 has reached the phase of wave i
overtaken(i) ==
    \E j \in 1..MAX_WAVES :
        /\ state.waves[j].active
        /\ state.waves[j].nValue = 90000
        /\ state.waves[j].phase >= state.waves[i].phase

C14_PauseFreezesWaves ==
    [][/\ (frameStep /\ state.isPaused)
            => /\ state'.waves = state.waves
               /\ state'.waveCount = state.waveCount
               /\ state'.lastWaveSpawnTime = state.lastWaveSpawnTime
               /\ state'.globalTime = state.globalTime
               /\ state'.eventIntensity = state.eventIntensity
               /\ state'.eventPhase = state.eventPhase
               /\ state'.lastEventTime = state.lastEventTime
       /\ (frameStep /\ normalized(serialLine) = <<"s">> /\ reply = "OK_RESUMED")
            => state'.globalTime - state.globalTime
                   = clampDelta(state'.lastUpdateTime - now)]_vars

\* C14 witness: three passes of 1 s, one of them paused, then resumed: the
\* wave clock has counted 2 s and a wave is under way.
C14_ResumedAfterPause ==
    /\ pc = "serial"
    /\ reply = "OK_RESUMED"
    /\ ~state.isPaused
    /\ cmdCount = 2
    /\ frameCount = 3
    /\ now = SETUP_DELAY + 3000
    /\ state.globalTime = 2000
    /\ state.lastUpdateTime = now
    /\ state.waveCount > 0

\* C15: in a frame run while isPaused is true each bridge strip's globalTime
\* advances by the (clamped) time since its last update, and the strip's
\* particles and flash are updated as updateParticles, spawnParticle and
\* updateFlashEffect update them in any frame.
C15_BridgeRunsWhilePaused ==
    [][(frameStep /\ state.isPaused)
         => \A i \in 1..2 :
                /\ tidal'[i].globalTime
                       = tidal[i].globalTime + clampDelta(now' - tidal[i].lastUpdateTime)
                /\ tidal'[i].lastUpdateTime = now'
                /\ \E e \in Draws, h \in Draws, f \in Draws :
                       tidal'[i] = tidalStep(tidal[i], TidalLEDs[i], now',
                                             frameCount + 1, e, h, f)]_vars

\* C15 witness: paused, after a frame run while paused in which a strip
\* spawned a particle and moved an older one.
C15_ParticlesMovedWhilePaused ==
    /\ pc = "serial"
    /\ serialLine = NoLine
    /\ state.isPaused
    /\ frameCount > 1
    /\ \E i \in 1..2 :
           /\ \E k \in 1..particleCount(tidal[i]) : tidal[i].particles[k].id = frameCount
           /\ \E k \in 1..particleCount(tidal[i]) :
                  /\ tidal[i].particles[k].id < frameCount
                  /\ tidal[i].particles[k].x > 0
           /\ tidal[i].globalTime > state.globalTime

\* C16: a frame that starts with a strip's controlValue at 0 ends with that
\* strip's particleCount at 0, and spawns no particle on it.
C16_NoParticlesAtZero ==
    [][\A i \in 1..2 :
           (frameStep /\ tidal[i].controlValue = 0)
               => /\ particleCount(tidal'[i]) = 0
                  /\ tidal'[i].lastParticleSpawnTime = tidal[i].lastParticleSpawnTime]_vars

\* C16 witness: q arrived while a strip held the particle spawned in the pass
\* before, and the frame of that pass has emptied the strip.
C16_ClearedAfterQuit ==
    /\ pc = "serial"
    /\ serialLine = NoLine
    /\ afterQuit
    /\ \E i \in 1..2 :
           /\ tidal[i].controlValue = 0
           /\ particleCount(tidal[i]) = 0
           /\ tidal[i].lastParticleSpawnTime > 0
           /\ tidal[i].globalTime - tidal[i].lastParticleSpawnTime = 1000

C18_FlashThresholdInRange ==
    \E line \in CommandLines :
        LET r == parseCommand(line, state, tidal, now)
        IN  /\ r.reply = "OK_SET"
            /\ \E i \in 1..2 : mapControlValue(r.tidal[i].controlValue) > 85000

\* C19: a frame in which updateEventLayer triggers an event comes at least
\* EVENT_COOLDOWN after the previous trigger, whatever commands arrived in
\* between.
C19_EventCooldown ==
    [][(frameStep /\ lastTrigger >= 0 /\ lastTrigger' # lastTrigger)
          => lastTrigger' - lastTrigger >= EVENT_COOLDOWN]_vars

\* C20: state.globalTime never decreases: after every step, a frame or a
\* command (f,0 included), it is at least what it was before.
C20_GlobalTimeMonotone ==
    [][state'.globalTime >= state.globalTime]_vars

\* C20 as amended: an f command whose resulting target is 0 sets
\* state.globalTime to 0; every other step, a frame or any other command,
\* leaves it at least what it was before.
C20_GlobalTimeResetOnlyByFZero ==
    [][IF commandStep /\ isFLine(serialLine') /\ state'.targetControlValue = 0
       THEN state'.globalTime = 0
       ELSE state'.globalTime >= state.globalTime]_vars

\* C20 witness: the first command of the run, f,0, has just set globalTime
\* back to 0 after frames had advanced it.
C20_ClockResetByFZero ==
    /\ pc = "frame"
    /\ cmdCount = 1
    /\ frameCount >= 2
    /\ serialLine = <<"f", ",", "0">>
    /\ state.targetControlValue = 0
    /\ state.globalTime = 0
    /\ tidal[1].globalTime >= 1000

\* the largest distance, in 1/1000 LED, a particle of strip ts covers in 1 s
maxTravel(ts) ==
    (lerpFloat(10000, 260000, tidalS(ts)) * (1000 + lerpFloat(0, 2500, tidalS(ts)))) \div 1000

\* C21: the deltaTime a frame applies to the wave subsystem (when not paused)
\* and to each bridge strip is the measured time since the last update if that
\* is at most 1 s and 16 ms otherwise, hence within [0, 1 s]; no wave that
\* stays active advances its phase by more than 1 s at its speed and no
\* particle that stays live moves by more than 1 s of travel.
C21_DeltaClamped ==
    [][frameStep
         => /\ ~state.isPaused
                 => LET raw == state'.lastUpdateTime - state.lastUpdateTime
                        d == state'.globalTime - state.globalTime
                    IN  /\ 0 <= d /\ d <= 1000
                        /\ d = (IF raw > 1000 THEN 16 ELSE raw)
                        /\ \A i \in 1..MAX_WAVES :
                               (state.waves[i].active /\ state'.waves[i].active
                                  /\ state.waves[i].speed # NaN)
                                   => state'.waves[i].phase - state.waves[i].phase
                                          <= state.waves[i].speed * 1000
            /\ \A i \in 1..2 :
                   LET raw == IF tidal[i].lastUpdateTime = 0 THEN 0
                              ELSE now' - tidal[i].lastUpdateTime
                       d == tidal'[i].globalTime - tidal[i].globalTime
                   IN  /\ 0 <= d /\ d <= 1000
                       /\ d = (IF raw > 1000 THEN 16 ELSE raw)
                       /\ \A id \in liveIds(tidal[i]) \cap liveIds(tidal'[i]) :
                              (xOf(tidal[i], id) # NaN /\ xOf(tidal'[i], id) # NaN)
                                  => xOf(tidal'[i], id) - xOf(tidal[i], id)
                                         <= maxTravel(tidal[i])]_vars

\* C21 witness: the second pass came 1.5 s after the first, and the wave clock
\* and a strip's clock, with a wave and a particle in flight, moved on by 16 ms.
C21_StallClamped ==
    /\ pc = "serial"
    /\ frameCount = 2
    /\ cmdCount = 0
    /\ now = SETUP_DELAY + 2500
    /\ state.globalTime = 1016
    /\ tidal[1].globalTime = 1016
    /\ activeWaves(state) # {}
    /\ \E k \in 1..particleCount(tidal[1]) : tidal[1].particles[k].x > 0

returned(fn) == call.fn = fn /\ call.done

congruent(x, y) == x % PHASE_PERIOD = y % PHASE_PERIOD

\* C23: the dark-wave and the overshoot contribution of a wave to a position
\* equal its contribution to every position congruent to it modulo PERIOD
\* (position 0 and position 21 get the same contribution).
C23_PeriodicDomain ==
    /\ returned("calculateMainDarkWave")
           => \A q \in WavePositions :
                  congruent(q, call.args[1])
                      => calculateMainDarkWave(q, oneWave(call.args[2], call.args[3]))
                             = call.result
    /\ returned("calculateOvershoot")
           => \A q \in WavePositions :
                  congruent(q, call.args[1])
                      => calculateOvershoot(q, oneWave(call.args[2], call.args[3]))
                             = call.result

\* C24: the wave spawn interval computed for a control value n in [0, 100] is
\* at most the interval computed for every smaller control value, is
\* WAVE_INTERVAL_SLOW at n = 0 and WAVE_INTERVAL_FAST at n = 100.
C24_IntervalMonotone ==
    returned("waveInterval")
        => LET n == call.args[1]
           IN  /\ \A m \in ControlValues : m <= n => waveIntervalOf(m) >= call.result
               /\ \A m \in ControlValues : m >= n => waveIntervalOf(m) <= call.result
               /\ n = 0 => call.result = WAVE_INTERVAL_SLOW
               /\ n = 100000 => call.result = WAVE_INTERVAL_FAST
               /\ WAVE_INTERVAL_FAST <= call.result /\ call.result <= WAVE_INTERVAL_SLOW

\* C24 witness: the interval computed for the control value 50, between the
\* two ends.
C24_IntervalAtHalf ==
    /\ returned("waveInterval")
    /\ call.args[1] = 50000
    /\ call.result < WAVE_INTERVAL_SLOW
    /\ call.result > WAVE_INTERVAL_FAST

\* the frame spawned a wave
spawned == frameStep /\ state'.lastWaveSpawnTime # state.lastWaveSpawnTime

\* a numeric target above 0 set by the f command of this step
rearmed == commandStep /\ reply' = "OK_SET" /\ state'.targetControlValue # NaN
              /\ state'.targetControlValue > 0

\* 10 s - 9 s * x for x = n / 100, in ms
linearInterval(n) ==
    WAVE_INTERVAL_SLOW - ((WAVE_INTERVAL_SLOW - WAVE_INTERVAL_FAST) * (n \div 100)) \div 1000

\* 10 s - 9 s * (3x^2 - 2x^3) for x = n / 100, in ms
easedInterval(n) ==
    LET x == n \div 100
    IN  WAVE_INTERVAL_SLOW
          - ((WAVE_INTERVAL_SLOW - WAVE_INTERVAL_FAST) * ((x * x * (3000 - 2 * x)) \div 1000000))
                \div 1000

\* C25 (as claimed): an unpaused frame with a numeric target spawns a wave
\* exactly if the time since the last spawn is at least the eased interval
\* lerp(10 s, 1 s, 3x^2 - 2x^3), x = target / 100, and an f command with a
\* target above 0 sets lastWaveSpawnTime one eased interval before globalTime.
C25_IntervalEased ==
    [][/\ (frameStep /\ ~state.isPaused /\ state.targetControlValue # NaN
             /\ state.lastWaveSpawnTime # NaN)
          => (spawned <=> state'.globalTime - state.lastWaveSpawnTime
                              >= easedInterval(state.targetControlValue))
       /\ rearmed => state'.lastWaveSpawnTime
                         = state.globalTime - easedInterval(state'.targetControlValue)]_vars

\* C25 (amended): the same with the linear interval lerp(10 s, 1 s, x),
\* x = target / 100.
C25_IntervalLinear ==
    [][/\ (frameStep /\ ~state.isPaused /\ state.targetControlValue # NaN
             /\ state.lastWaveSpawnTime # NaN)
          => (spawned <=> state'.globalTime - state.lastWaveSpawnTime
                              >= linearInterval(state.targetControlValue))
       /\ rearmed => state'.lastWaveSpawnTime
                         = state.globalTime - linearInterval(state'.targetControlValue)]_vars

\* C25 witness: f,40 re-armed the timer 6.4 s back and the frame of the same
\* pass, which advanced globalTime by 16 ms, spawned the wave of 40: 6.416 s
\* since the re-armed time, above the linear 6.4 s and below the eased 6.832 s.
C25_SpawnedAfterLinearInterval ==
    /\ pc = "serial"
    /\ cmdCount = 1
    /\ state.targetControlValue = 40000
    /\ state.lastWaveSpawnTime = state.globalTime
    /\ \E i \in activeWaves(state) :
           /\ state.waves[i].nValue = 40000
           /\ state.waves[i].phase = 16 * waveSpeedOf(40000)
    /\ 6416 >= linearInterval(40000)
    /\ 6416 < easedInterval(40000)

\* the state is the one the last loop() pass rendered
rendered == pc = "serial" /\ frameCount > 0

\* C26: in every rendered frame, paused or not, eventIntensity is 0 if
\* currentControlValue is below 70.
C26_EventGated ==
    (rendered /\ flt(state.currentControlValue, 70000)) => state.eventIntensity = 0

\* C27: an unpaused frame that starts with an event active and leaves the
\* control value at 70 or above advances eventPhase by 8 times the deltaTime
\* by which the same frame advances globalTime and the waves.
C27_EventPhaseAdvance ==
    [][(frameStep /\ ~state.isPaused /\ state.eventIntensity > 0
          /\ ~flt(state'.currentControlValue, 70000))
         => state'.eventPhase
                = state.eventPhase + 8000 * (state'.globalTime - state.globalTime)]_vars

\* C28: from a q command until the next f command every LED that
\* renderFunctionA writes, in each of the five groups, is black in every
\* rendered frame.
C28_BlackAfterQuit ==
    (rendered /\ afterQuit)
        => \A g \in 1..NUM_GROUPS :
               \A i \in segmentsA(g) : renderFunctionA(state, g)[i] = {0}

\* C29: in every state waveCount is the number of active wave slots, and
\* after every frame each active wave has 0 <= phase < PHASE_PERIOD.
C29_WavePoolConsistent ==
    /\ state.waveCount = Cardinality(activeWaves(state))
    /\ rendered
           => \A i \in activeWaves(state) :
                  /\ state.waves[i].phase # NaN
                  /\ 0 <= state.waves[i].phase
                  /\ state.waves[i].phase < PHASE_PERIOD

\* C29 witness: a wave has been retired and its slot taken again: a slot holds
\* a younger wave than the slot after it, and the later slots that were never
\* used or were retired are inactive.
C29_SlotReused ==
    /\ rendered
    /\ state.waveCount > 1
    /\ state.waveCount < MAX_WAVES
    /\ \E i \in activeWaves(state), j \in activeWaves(state) :
           i < j /\ state.waves[i].phase < state.waves[j].phase
    /\ \E i \in 1..MAX_WAVES :
           ~state.waves[i].active /\ state.waves[i].phase >= PHASE_PERIOD

\* particle k of strip i as updateParticles leaves it when it is the only
\* particle of the strip: <<the advanced particle>>, or <<>> if it is removed
advancedAlone(i, k) ==
    particleLoop(<<tidal[i].particles[k]>>, 1, TidalLEDs[i], tidalS(tidal[i]),
                 tidal'[i].globalTime - tidal[i].globalTime)

\* C30: in a frame in which the loop of updateParticles runs (controlValue is
\* not <= 0) the particles live afterwards, the one spawned in this frame
\* aside, are exactly the particles live before whose advanced position is not
\* >= the strip length, each once and at the position one advance gives it,
\* and every live particle has 0 <= x < strip length.
C30_ParticlesAdvancedOnce ==
    [][\A i \in 1..2 :
           (frameStep /\ ~(tidal[i].controlValue # NaN /\ tidal[i].controlValue <= 0))
               => LET old == tidal[i].particles
                      new == tidal'[i].particles
                      kept == {k \in 1..Len(old) : advancedAlone(i, k) # <<>>}
                  IN  /\ liveIds(tidal'[i]) \ {frameCount + 1}
                             = {old[k].id : k \in kept}
                      /\ Cardinality(liveIds(tidal'[i])) = Len(new)
                      /\ \A k \in kept :
                             xOf(tidal'[i], old[k].id) = advancedAlone(i, k)[1].x
                      /\ \A m \in 1..Len(new) :
                             /\ new[m].x # NaN
                             /\ 0 <= new[m].x
                             /\ new[m].x < 1000 * TidalLEDs[i]]_vars

---------------------------------------------------------------------------
(* C33: calculateDuration(percent) returns 150 * percent milliseconds for    *)
(* every percent from 0 to 100, 15000 ms at 100, in the 16-bit int          *)
(* arithmetic of the board.  The product 15000 * percent does not fit an int *)
(* from percent 3 on, and where it wraps the call returns another value.     *)
C33_DurationIs150PerPercent ==
    returned("calculateDuration") => call.result = 150 * call.args[1]

---------------------------------------------------------------------------
(* C39: after updateVirtualPosition of the earlier sketches the global       *)
(* virtual position lies within [VIRTUAL_POS_MIN, VIRTUAL_POS_MAX], for      *)
(* every speed and delta time.  A position that passes 20 by less than 1     *)
(* is taken down by 20, below 1, and brought back up by 20 to where it was.  *)
C39_PositionOnRing ==
    (returned("updateVirtualPositionNov20a") \/ returned("updateVirtualPositionPart001"))
        => /\ call.result.globalVirtualPos >= VIRTUAL_POS_MIN
           /\ call.result.globalVirtualPos <= VIRTUAL_POS_MAX

---------------------------------------------------------------------------
(* Pin states of the controller inside a pass of loop() *)

\* the value of a pin after the first k pin writes of the pass just made
pinAt(k, pin) ==
    IF \E j \in 1..k : pinWrites'[j][1] = pin
    THEN lastWritten(SubSeq(pinWrites', 1, k), pin)
    ELSE pins[pin]

\* after k writes: the group is driven forward or backward
drivenAt(k, group) ==
    \/ pinAt(k, RPWM_PINS[groupStart(group)]) # 0
    \/ pinAt(k, LPWM_PINS[groupStart(group)]) # 0

\* after k writes: both PWM outputs of the group are 0 and its enable pins low
quietAt(k, group) ==
    /\ ~drivenAt(k, group)
    /\ \A i \in groupStart(group)..groupEnd(group) :
           pinAt(k, R_EN_PINS[i]) = LOW /\ pinAt(k, L_EN_PINS[i]) = LOW

(* C31: in the multi-component controller the forward (RPWM) and reverse      *)
(* (LPWM) output of a group are never both non-zero, write by write, whatever *)
(* the commands and state-machine steps; and every write that starts driving  *)
(* a group, so every change of direction, comes after a state of the same     *)
(* pass in which both PWM outputs are 0 and the group's enable pins are low,  *)
(* with no drive in between.                                                  *)
C31_PwmExclusive ==
    [][\A group \in {1, 2} : \A k \in 0..Len(pinWrites') :
          /\ ~ /\ pinAt(k, RPWM_PINS[groupStart(group)]) # 0
               /\ pinAt(k, LPWM_PINS[groupStart(group)]) # 0
          /\ (k > 0 /\ drivenAt(k, group) /\ ~drivenAt(k - 1, group))
                 => \E q \in 0..(k - 1) :
                        /\ quietAt(q, group)
                        /\ \A j \in q..(k - 1) : ~drivenAt(j, group)]_vars

\* the reset of a forward main motion drives group 1 backward: the direction
\* of the group has changed
C31_DirectionChanged ==
    /\ systemState.mainState = "RESETTING"
    /\ lastMain.direction = "F"
    /\ pins[RPWM_PINS[1]] = 0
    /\ pins[LPWM_PINS[1]] = 255

\* C34: in the reset phase of a main-mode cycle the groups are driven in the
\* direction opposite to the main motion of the cycle, with the same percent,
\* whatever was received during RUNNING and STOPPING.
C34_ResetReverses ==
    systemState.mainState = "RESETTING"
        => /\ lastMain.resetDirection # lastMain.direction
           /\ lastMain.resetPercent = lastMain.percent

\* every group enable pin low, every PWM output 0, the stepper stopped
MotionOff ==
    /\ \A i \in 1..NUM_ACTUATORS :
           /\ pins[R_EN_PINS[i]] = LOW /\ pins[L_EN_PINS[i]] = LOW
           /\ pins[RPWM_PINS[i]] = 0 /\ pins[LPWM_PINS[i]] = 0
    /\ ~stepperRunning
    /\ pins[STEPPER_STEP_PIN] = LOW

\* the state a force stop leaves
Halted ==
    /\ MotionOff
    /\ systemState.mainState = "IDLE"
    /\ systemState.initState = "INIT_IDLE"
    /\ ~systemState.inCooldown

\* a pass of loop() in which no command was accepted
NothingAccepted ==
    \A k \in 1..Len(handled') : handled'[k].outcome \in {"ignored", "busy", "invalid"}

\* C36: a line s or S is a force stop in every state; the pass that reads it
\* ends with all enables low, all PWM 0, the stepper stopped, mainState IDLE,
\* initState INIT_IDLE and inCooldown false; and from such a state a pass that
\* accepts no command writes no pin and leaves the state halted.
C36_ForceStop ==
    [][/\ \A k \in 1..Len(handled') :
              toUpperCase(handled'[k].line) = <<"S">> => handled'[k].outcome = "stop"
       /\ (handled' # <<>> /\ handled'[Len(handled')].outcome = "stop") => Halted'
       /\ (Halted /\ NothingAccepted) => (Halted' /\ pinWrites' = <<>>)]_vars

C36_StoppedWhileBusy ==
    /\ handled # <<>>
    /\ handled[Len(handled)].outcome = "stop"
    /\ lastMain.resetDirection # NUL
    /\ frameCount = 4

\* C37: a main-mode or debug command that arrives less than 30 s after a
\* command was accepted, with no force stop in between, is ignored and
\* changes nothing; s and START are never ignored; a command that arrives
\* 30 s or more after the last accepted one is not ignored, whatever was
\* ignored in between.
C37_Cooldown ==
    \A k \in 1..Len(handled) :
        LET h == handled[k]
            upper == toUpperCase(h.line)
        IN  /\ (/\ h.outcome \in {"ignored", "busy", "main", "debug"}
                /\ ~h.prior.stopped
                /\ h.at - h.prior.at < 30000)
                   => (h.outcome = "ignored" /\ ~h.changed)
            /\ upper = <<"S">> => h.outcome = "stop"
            /\ upper = START => h.outcome = "start"
            /\ (h.prior.stopped \/ h.at - h.prior.at >= 30000) => h.outcome # "ignored"

C37_AcceptedAfterIgnored ==
    /\ frameCount = 4
    /\ cmdCount = 4
    /\ handled # <<>>
    /\ handled[1].outcome = "debug"
    /\ ~handled[1].prior.stopped
    /\ handled[1].prior.at = 0
    /\ handled[1].at - handled[1].prior.at >= 30000
    /\ systemState.lastCommandTime = handled[1].at

\* C38: a line of more than CMD_BUFFER_SIZE - 1 characters is discarded as a
\* whole: no line handed to parseCommand comes from a serial line that long,
\* and cmdIndex stays below CMD_BUFFER_SIZE.
C38_LongLineDiscarded ==
    /\ cmdIndex < CMD_BUFFER_SIZE
    /\ \A k \in 1..Len(handled) : handled[k].received <= CMD_BUFFER_SIZE - 1

\* a main-mode command started a motion and no command was accepted or force
\* stop received since
Undisturbed ==
    /\ lastMain.direction # NUL
    /\ lastAccepted = [at |-> lastMain.at, stopped |-> FALSE]

\* the duration of every running component has elapsed at time t
Elapsed(t) ==
    /\ ~stillMoving(systemState.group1, t) /\ ~stillMoving(systemState.group2, t)
    /\ ~stillMoving(systemState.stepper, t) /\ ~stillMoving(systemState.servo, t)

MainStateOrder ==
    {<<"IDLE", "IDLE">>, <<"IDLE", "RUNNING">>, <<"RUNNING", "RUNNING">>,
     <<"RUNNING", "STOPPING">>, <<"STOPPING", "STOPPING">>, <<"STOPPING", "RESETTING">>,
     <<"RESETTING", "RESETTING">>, <<"RESETTING", "IDLE">>}

\* the steps of a main-mode cycle in which no other command interferes
CycleStep ==
    LET from == systemState.mainState
        to == systemState'.mainState
    IN  /\ <<from, to>> \in MainStateOrder
        /\ (from = "IDLE" /\ to = "RUNNING")
               => (handled' # <<>> /\ handled'[Len(handled')].outcome = "main")
        /\ (from = "RUNNING" /\ handled' = <<>>)
               => /\ to = "STOPPING" <=> Elapsed(now)
                  /\ to = "STOPPING" => MotionOff'
        /\ (from = "STOPPING" /\ handled' = <<>>)
               => (to = "RESETTING" <=> now - systemState.stateStartTime >= 10000)
        /\ (from = "RESETTING" /\ to = "IDLE") => MotionOff'

\* a main-mode command handled while mainState is not IDLE starts nothing
BusyStartsNothing ==
    (Len(handled') = 1 /\ systemState.mainState # "IDLE"
         /\ toUpperCase(handled'[1].line)[1] \in {"F", "B"}
         /\ handled'[1].outcome \notin {"invalid", "debug"})
        => /\ handled'[1].outcome \in {"ignored", "busy"}
           /\ ~handled'[1].wrote
           /\ lastMain'.at = lastMain.at

\* C35: after a main-mode command is accepted in IDLE, and while no further
\* command is accepted, mainState goes RUNNING, STOPPING, RESETTING, IDLE in
\* that order; RUNNING ends, with all motion off, in the pass in which every
\* component's duration has elapsed; STOPPING ends once 10 s have passed; IDLE
\* is reached with all group enables low and all PWM outputs 0; and a
\* main-mode command received while mainState is not IDLE starts no motion.
C35_MainCycle ==
    [][(Undisturbed' => CycleStep) /\ BusyStartsNothing]_vars

\* C32: in the basic sketch RPWM and LPWM of one actuator are never both
\* non-zero, after any single pin write of moveForward, moveBackward or
\* stopMotor, including when a running actuator is reversed.
C32_PwmComplementary ==
    [][\A k \in 1..Len(pinWrites') :
           LET idx == pinWrites'[k][1][2]
           IN  pinWrites'[k][1][1] \in {"RPWM_PINS", "LPWM_PINS"}
                   => ~(pinAt(k, RPWM(idx)) # 0 /\ pinAt(k, LPWM(idx)) # 0)]_vars

====
